---- MODULE Spec2Model ----
(***************************************************************************)
(* Trinity: the self-healing build loop (TrinityEngine.build_with_self_-   *)
(* healing in src/src/trinity/engine.py) and its strategy escalator        *)
(* (SmartHealer in src/src/trinity/components/healer.py).                  *)
(*                                                                         *)
(* Conventions of the model                                                *)
(*  - A Python str of the content document is a sequence of one-character  *)
(*    strings, so slicing, concatenation and endswith are computed.        *)
(*  - The content document is a tree of nodes: "str", "dict", "list" and   *)
(*    "other" (numbers, None), the four cases of _truncate_recursive.      *)
(*  - A dict of style overrides is a function from region keys to class    *)
(*    strings; the class strings themselves are opaque.                    *)
(*  - The engine is built with the default use_neural_healer = False, so   *)
(*    self.healer is the SmartHealer.                                      *)
(*  - The renderer and the auditor are collaborators: each call returns    *)
(*    or raises, chosen nondeterministically.                              *)
(*  - A telemetry write (TrinityMiner.log_build_event in                   *)
(*    src/src/trinity/components/dataminer.py) succeeds or meets an I/O    *)
(*    error, chosen nondeterministically.                                  *)
(*  - SmartHealer, LayoutRiskPredictor (components/predictor.py) and       *)
(*    TrinityGuardian (src/src/guardian.py) are also exercised on their    *)
(*    own, under HealerSpec, PredictorSpec and GuardianSpec.               *)
(***************************************************************************)
EXTENDS Integers, Sequences, FiniteSets, TLC

VARIABLES
    config,                  \* TrinityConfig: max_retries, truncate_length, predictive_enabled
    healer,                  \* SmartHealer instance: truncate_length, override_history
    pc,                      \* position inside build_with_self_healing
    content,                 \* the content argument of the build
    enable_guardian,         \* the enable_guardian argument of the build
    max_retries,             \* local max_retries of the build
    attempt,                 \* local attempt
    current_content,         \* local current_content
    current_style_overrides, \* local current_style_overrides
    fixes_applied,           \* local fixes_applied
    prediction,              \* local prediction (None until the predictor is consulted)
    output_path,             \* local output_path
    report,                  \* local report (last audit report)
    result,                  \* the BuildResult returned
    files,                   \* output directory: file name -> artifact
    dataset,                 \* rows appended by TrinityMiner.log_build_event
    log,                     \* history: collaborator calls of the build, in order
    reports,                 \* history: audit reports, in order
    applied,                 \* history: healing results the build applied, in order
    calls,                   \* history: heal_layout calls on the healer, in order
    _guardian,               \* TrinityGuardian instance (None until loaded)
    audits,                  \* history: audit_layout calls on the guardian, in order
    _predictor,              \* LayoutRiskPredictor instance (None until loaded)
    predicted,               \* history: predict_best_strategy calls, in order
    models,                  \* model directory: the artifacts save_model wrote, in order
    trained,                 \* history: train_from_csv runs, in order
    generated,               \* history: content generation calls, in order
    breaker,                 \* CircuitBreaker instance (None until constructed)
    clock,                   \* time.time(), in seconds
    breaker_calls,           \* history: calls made through the breaker, in order
    manager,                 \* IdempotencyKeyManager instance (None until constructed)
    idem_calls,              \* history: calls of idempotent-wrapped functions, in order
    threads,                 \* threads calling the manager: operation, position, locals
    disk,                    \* the manager's persisted file: key -> entry
    cache,                   \* CacheManager tiers (None until constructed)
    llm_calls                \* history: cache lookups and LLM client calls, in order

vars == <<config, healer, pc, content, enable_guardian, max_retries, attempt,
          current_content, current_style_overrides, fixes_applied, prediction,
          output_path, report, result, files, dataset, log, reports, applied, calls,
          _guardian, audits, _predictor, predicted, models, trained,
          generated, breaker, clock, breaker_calls, manager, idem_calls,
          threads, disk, cache, llm_calls>>

\* The guardian and the predictor as objects of their own
\* The offline trainer and the utilities, objects of their own as well
breakerVars == <<breaker, clock, breaker_calls>>

idemVars == <<manager, idem_calls, threads, disk>>

\* The caches and the LLM client
cacheVars == <<cache, llm_calls>>

utilVars == <<models, trained, generated, breakerVars, idemVars, cacheVars>>

componentVars == <<_guardian, audits, _predictor, predicted, utilVars>>

buildVars == <<pc, content, enable_guardian, max_retries, attempt,
               current_content, current_style_overrides, fixes_applied, prediction,
               output_path, report, result, files, dataset, log, reports, applied>>

(***************************************************************************)
(* Bounds of the model                                                     *)
(***************************************************************************)
MaxRetriesBound == 5      \* config.max_retries ranges over 0..MaxRetriesBound
MaxAttemptArg == 6        \* direct heal_layout calls use attempt in 0..MaxAttemptArg
MaxCalls == 2             \* direct heal_layout calls per behaviour
LongLen == 60             \* length of the pathological (unbroken) title
MaxWriteFailures == 1     \* telemetry writes that fail during one build
MaxPredictions == 1       \* direct predict_best_strategy calls per behaviour
MaxAudits == 1            \* direct audit_layout calls per behaviour

(***************************************************************************)
(* Program constants                                                       *)
(***************************************************************************)
DefaultTruncateLength == 50    \* TrinityConfig.truncate_length default
DefaultMaxRetries == 3         \* TrinityConfig.max_retries default
MinCutLength == 30             \* floor of max_len in _apply_content_cut_strategy
CutStep == 10                  \* max_len decrease per attempt beyond the fourth
ConfidenceThreshold == 60      \* confidence > 0.6, in percent

Max(a, b) == IF a >= b THEN a ELSE b

(***************************************************************************)
(* Python values                                                           *)
(***************************************************************************)
NoneVal == [none |-> TRUE]
EmptyDict == [k \in {} |-> ""]

\* Variant of DictUpdate: classes of a key set twice are concatenated
DictUpdateMerging(d, other) ==
    [k \in (DOMAIN d) \cup (DOMAIN other) |->
        IF k \in DOMAIN other
        THEN IF k \in DOMAIN d THEN d[k] \o " " \o other[k] ELSE other[k]
        ELSE d[k]]

\* dict.update(other): overwrite by key
DictUpdate(d, other) ==
    [k \in (DOMAIN d) \cup (DOMAIN other) |->
        IF k \in DOMAIN other THEN other[k] ELSE d[k]]

Chars(n, c) == [i \in 1..n |-> c]
Ellipsis == <<".", ".", ".">>
EndsWith(s, suffix) ==
    /\ Len(s) >= Len(suffix)
    /\ SubSeq(s, Len(s) - Len(suffix) + 1, Len(s)) = suffix

StrNode(s) == [kind |-> "str", val |-> s]
DictNode(d) == [kind |-> "dict", items |-> d]
ListNode(l) == [kind |-> "list", elems |-> l]
OtherNode(n) == [kind |-> "other", num |-> n]

(***************************************************************************)
(* SmartHealer                                                             *)
(***************************************************************************)
\* HealingStrategy values
CSS_BREAK_WORD == "css_break_word"
FONT_SHRINK == "font_shrink"
CSS_TRUNCATE == "css_truncate"
CONTENT_CUT == "content_cut"

HealingResult(strategy, style_overrides, content_modified, modified_content, description) ==
    [strategy |-> strategy,
     style_overrides |-> style_overrides,
     content_modified |-> content_modified,
     modified_content |-> modified_content,
     description |-> description]

\* SmartHealer.__init__
SmartHealer(truncate_length) ==
    [truncate_length |-> truncate_length, override_history |-> EmptyDict]

nuclear_css == "break-all whitespace-normal overflow-wrap-anywhere"

_apply_break_word_strategy(self, rep) ==
    HealingResult(
        CSS_BREAK_WORD,
        [heading_primary |-> nuclear_css,
         heading_secondary |-> nuclear_css,
         body_text |-> nuclear_css,
         hero_title |-> nuclear_css,
         hero_subtitle |-> nuclear_css,
         card_title |-> nuclear_css,
         card_description |-> nuclear_css,
         tagline |-> nuclear_css],
        FALSE,
        NoneVal,
        [text |-> "Injected NUCLEAR break-all (mid-word breaking) to all text components via theme_classes keys",
         max_len |-> 0])

_apply_font_shrink_strategy(self, rep, cont) ==
    HealingResult(
        FONT_SHRINK,
        [heading_primary |-> "text-3xl break-all",
         heading_secondary |-> "text-xl break-all",
         body_text |-> "text-base break-words",
         hero_title |-> "text-3xl break-all",
         hero_subtitle |-> "text-lg break-words",
         card_title |-> "text-xl break-all"],
        FALSE,
        NoneVal,
        [text |-> "Reduced font sizes: headings (text-3xl/xl), body (text-base)",
         max_len |-> 0])

_apply_truncate_strategy(self, rep) ==
    HealingResult(
        CSS_TRUNCATE,
        [heading_primary |-> "truncate text-2xl",
         heading_secondary |-> "truncate text-lg",
         body_text |-> "line-clamp-3 text-sm",
         hero_title |-> "truncate text-2xl",
         hero_subtitle |-> "line-clamp-2 text-base",
         card_title |-> "truncate text-lg",
         card_description |-> "line-clamp-3 text-sm",
         tagline |-> "truncate"],
        FALSE,
        NoneVal,
        [text |-> "Added truncate and line-clamp classes with reduced font sizes",
         max_len |-> 0])

RECURSIVE _truncate_recursive(_, _)
_truncate_recursive(data, max_len) ==
    CASE data.kind = "dict" ->
            DictNode([k \in DOMAIN data.items |-> _truncate_recursive(data.items[k], max_len)])
      [] data.kind = "list" ->
            ListNode([i \in DOMAIN data.elems |-> _truncate_recursive(data.elems[i], max_len)])
      [] data.kind = "str" ->
            IF Len(data.val) > max_len
            THEN StrNode(SubSeq(data.val, 1, max_len) \o Ellipsis)
            ELSE data
      [] OTHER -> data

\* max_len of the content cut for a healer and an attempt
CutMaxLen(self, att) == Max(MinCutLength, self.truncate_length - (att - 4) * CutStep)

\* Variant of _apply_content_cut_strategy: the cut also carries truncate classes
_apply_content_cut_with_css(self, cont, att) ==
    HealingResult(
        CONTENT_CUT,
        [heading_primary |-> "truncate text-2xl"],
        TRUE,
        _truncate_recursive(cont, CutMaxLen(self, att)),
        [text |-> "Truncated all strings to {max_len} characters (nuclear option)",
         max_len |-> CutMaxLen(self, att)])

_apply_content_cut_strategy(self, cont, att) ==
    HealingResult(
        CONTENT_CUT,
        EmptyDict,
        TRUE,
        _truncate_recursive(cont, CutMaxLen(self, att)),
        [text |-> "Truncated all strings to {max_len} characters (nuclear option)",
         max_len |-> CutMaxLen(self, att)])

\* Variant of heal_layout: the content is cut from the third attempt on
heal_layout_cut_early(self, guardian_report, cont, att) ==
    IF att = 1 THEN _apply_break_word_strategy(self, guardian_report)
    ELSE IF att = 2 THEN _apply_font_shrink_strategy(self, guardian_report, cont)
    ELSE _apply_content_cut_strategy(self, cont, att)

\* Variant of heal_layout: the guardian's fix suggestion selects the strategy
heal_layout_by_suggestion(self, guardian_report, cont, att) ==
    IF guardian_report.fix_suggestion = "truncate"
    THEN _apply_truncate_strategy(self, guardian_report)
    ELSE IF att = 1 THEN _apply_break_word_strategy(self, guardian_report)
    ELSE IF att = 2 THEN _apply_font_shrink_strategy(self, guardian_report, cont)
    ELSE IF att = 3 THEN _apply_truncate_strategy(self, guardian_report)
    ELSE _apply_content_cut_strategy(self, cont, att)

heal_layout(self, guardian_report, cont, att) ==
    IF att = 1 THEN _apply_break_word_strategy(self, guardian_report)
    ELSE IF att = 2 THEN _apply_font_shrink_strategy(self, guardian_report, cont)
    ELSE IF att = 3 THEN _apply_truncate_strategy(self, guardian_report)
    ELSE _apply_content_cut_strategy(self, cont, att)

(***************************************************************************)
(* Inputs                                                                  *)
(***************************************************************************)
Text(n) == Chars(n, "a")

\* Ordinary content: every string is short.
ShortContent ==
    DictNode([brand_name |-> StrNode(Text(4)),
              tagline |-> StrNode(Text(7)),
              hero |-> DictNode([title |-> StrNode(Text(5)),
                                 subtitle |-> StrNode(Text(8))]),
              repos |-> ListNode(<<>>)])

\* Pathological content: an unbroken title of LongLen characters and a
\* repository description between the cut floor and the default cut length.
LongContent ==
    DictNode([brand_name |-> StrNode(Text(4)),
              tagline |-> StrNode(Text(7)),
              hero |-> DictNode([title |-> StrNode(Chars(LongLen, "A")),
                                 subtitle |-> StrNode(Text(8))]),
              repos |-> ListNode(<<DictNode([name |-> StrNode(Text(3)),
                                             description |-> StrNode(Chars(45, "A")),
                                             stars |-> OtherNode(7)])>>)])

Contents == {ShortContent, LongContent}
TruncateLengths == {20, DefaultTruncateLength}

Title(cont) == cont.items["hero"].items["title"].val

\* Audit reports the guardian can return (TrinityGuardian.audit_layout)
ApprovedReports ==
    {[approved |-> TRUE, status |-> "pass", reason |-> "DOM checks passed", fix_suggestion |-> "none"]}
RejectedReports ==
    {[approved |-> FALSE, status |-> "fail", reason |-> "DOM overflow detected", fix_suggestion |-> "truncate"],
     [approved |-> FALSE, status |-> "fail", reason |-> "Visual layout bugs detected", fix_suggestion |-> "shrink"]}
AuditReports == ApprovedReports \cup RejectedReports

RenderErrors == {"Template not found", "Failed to build page"}
\* str(e) of what audit_layout raises: a KeyError on the vision answer
AuditErrors == {"'status'"}

\* Outputs of LayoutRiskPredictor.predict_best_strategy; confidence in percent
STRATEGY_MAP == {"NONE", "CSS_BREAK_WORD", "FONT_SHRINK", "CSS_TRUNCATE", "CONTENT_CUT",
                 "UNRESOLVED_FAIL", "UNKNOWN"}
Confidences == {59, 60, 61}
FallbackPrediction ==
    [strategy_name |-> "CSS_BREAK_WORD", confidence |-> 50, prediction_available |-> FALSE]
Predictions ==
    {FallbackPrediction} \cup
    [strategy_name : STRATEGY_MAP, confidence : Confidences, prediction_available : {TRUE}]

(***************************************************************************)
(* TrinityMiner                                                            *)
(***************************************************************************)
_compute_resolved_strategy_id(strategy, guardian_verdict) ==
    IF ~guardian_verdict THEN 99
    ELSE CASE strategy = "NONE" -> 0
           [] strategy = "CSS_BREAK_WORD" -> 1
           [] strategy = "FONT_SHRINK" -> 2
           [] strategy = "CSS_TRUNCATE" -> 3
           [] strategy = "CONTENT_CUT" -> 4
           [] OTHER -> 99

\* The row log_build_event appends to the dataset
log_build_event(cont, strategy, guardian_verdict, guardian_reason, css_overrides) ==
    [active_strategy |-> strategy,
     resolved_strategy_id |-> _compute_resolved_strategy_id(strategy, guardian_verdict),
     is_valid |-> IF guardian_verdict THEN 1 ELSE 0,
     failure_reason |-> guardian_reason,
     style_overrides_raw |-> css_overrides]

\* An I/O failure while the row is written (open or writerow raises)
OSError(msg) == [exception |-> "OSError", msg |-> msg]
MinerErrors == {OSError("No space left on device")}
WriteOutcomes == {NoneVal} \cup MinerErrors

\* Variant of write_row: no except clause, the I/O error reaches the caller
write_row_unguarded(ds, row, io_error) ==
    [dataset |-> IF io_error = NoneVal THEN Append(ds, row) ELSE ds,
     raised |-> io_error # NoneVal]

\* try: ... writer.writerow(row) except Exception as e: logger.error(...)
\* The row is appended unless the write fails; the failure is swallowed.
write_row(ds, row, io_error) ==
    [dataset |-> IF io_error = NoneVal THEN Append(ds, row) ELSE ds,
     raised |-> FALSE]

(***************************************************************************)
(* TrinityEngine                                                           *)
(***************************************************************************)
SUCCESS == "success"
FAILED == "failed"
REJECTED == "rejected"
PARTIAL == "partial"
BuildStatus == {SUCCESS, FAILED, REJECTED, PARTIAL}

ErrorMsg(prefix, detail) == [prefix |-> prefix, detail |-> detail]

\* BuildResult with the defaults of the pydantic model
BuildResult(status, path, attempts, guardian_report, fixes, errors) ==
    [status |-> status, output_path |-> path, attempts |-> attempts,
     guardian_report |-> guardian_report, fixes_applied |-> fixes, errors |-> errors]

OutputFilename == "index.html"
BrokenFilename == "BROKEN_index.html"
NoFile == [absent |-> TRUE]
NoPath == "None"

\* What SiteBuilder.build_page writes: the page rendered from the content and
\* the overrides (None when the overrides are empty); att tags the render.
Artifact(cont, overrides, att) ==
    [content |-> cont,
     style_overrides |-> IF DOMAIN overrides # {} THEN overrides ELSE NoneVal,
     attempt |-> att]

\* fixes_applied[-1].split(" ")[0] if fixes_applied else "NONE"
current_strategy(fixes) ==
    IF fixes # <<>> THEN fixes[Len(fixes)][1] ELSE "NONE"

\* strategy_to_attempt.get(strategy_name, 1)
strategy_to_attempt(strategy_name) ==
    CASE strategy_name = "CSS_BREAK_WORD" -> 1
      [] strategy_name = "FONT_SHRINK" -> 2
      [] strategy_name = "CSS_TRUNCATE" -> 3
      [] strategy_name = "CONTENT_CUT" -> 4
      [] OTHER -> 1

\* strategy_name.lower() on the names of STRATEGY_MAP
lower(strategy_name) ==
    CASE strategy_name = "NONE" -> "none"
      [] strategy_name = "CSS_BREAK_WORD" -> "css_break_word"
      [] strategy_name = "FONT_SHRINK" -> "font_shrink"
      [] strategy_name = "CSS_TRUNCATE" -> "css_truncate"
      [] strategy_name = "CONTENT_CUT" -> "content_cut"
      [] strategy_name = "UNRESOLVED_FAIL" -> "unresolved_fail"
      [] strategy_name = "UNKNOWN" -> "unknown"

mock_report(strategy_name) ==
    [approved |-> FALSE, status |-> "fail",
     reason |-> "ML predicted " \o strategy_name \o " needed",
     fix_suggestion |-> lower(strategy_name)]

Event(op, att) == [op |-> op, attempt |-> att, detail |-> ""]
EventOf(op, att, detail) == [op |-> op, attempt |-> att, detail |-> detail]
Call(self, rep, cont, att, res) ==
    [healer |-> self, report |-> rep, content |-> cont, attempt |-> att, result |-> res]

\* No build has been started
Idle ==
    /\ pc = "idle"
    /\ content = NoneVal
    /\ enable_guardian = FALSE
    /\ max_retries = 0
    /\ attempt = 0
    /\ current_content = NoneVal
    /\ current_style_overrides = EmptyDict
    /\ fixes_applied = <<>>
    /\ prediction = NoneVal
    /\ output_path = NoPath
    /\ report = NoneVal
    /\ result = NoneVal
    /\ files = [f \in {OutputFilename, BrokenFilename} |-> NoFile]
    /\ dataset = <<>>
    /\ log = <<>>
    /\ reports = <<>>
    /\ applied = <<>>
    /\ calls = <<>>
    /\ audits = <<>>
    /\ predicted = <<>>
    /\ models = <<>>
    /\ trained = <<>>
    /\ generated = <<>>
    /\ breaker = NoneVal
    /\ clock = 0
    /\ breaker_calls = <<>>
    /\ manager = NoneVal
    /\ idem_calls = <<>>
    /\ threads = <<>>
    /\ disk = <<>>
    /\ cache = NoneVal
    /\ llm_calls = <<>>

\* TrinityEngine.__init__ with a TrinityConfig
Init ==
    /\ config \in [max_retries : 0..MaxRetriesBound,
                   truncate_length : TruncateLengths,
                   predictive_enabled : BOOLEAN]
    /\ healer = SmartHealer(config.truncate_length)
    /\ _guardian = NoneVal
    /\ _predictor = NoneVal
    /\ Idle

Return(res) ==
    /\ result' = res
    /\ pc' = "done"

\* build_with_self_healing is called; the content passes validation
StartBuild(cont, guardian) ==
    /\ pc = "idle"
    /\ content' = cont
    /\ enable_guardian' = guardian
    /\ max_retries' = IF guardian THEN config.max_retries ELSE 1
    /\ attempt' = 0
    /\ current_content' = cont
    /\ current_style_overrides' = EmptyDict
    /\ fixes_applied' = <<>>
    /\ pc' = "precog"
    /\ log' = Append(log, Event("validate", 0))
    /\ UNCHANGED <<componentVars, config, healer, prediction, output_path, report, result, files,
                   dataset, reports, applied, calls>>

\* build_with_self_healing is called; validate_content_schema raises ValidationError
StartBuildInvalid(cont, guardian) ==
    /\ pc = "idle"
    /\ content' = cont
    /\ enable_guardian' = guardian
    /\ log' = Append(log, Event("validate_raise", 0))
    /\ Return(BuildResult(FAILED, NoPath, 0, NoneVal, <<>>,
                          <<ErrorMsg("Content validation failed: ", "invalid schema")>>))
    /\ UNCHANGED <<componentVars, config, healer, prediction, max_retries, attempt, current_content,
                   current_style_overrides, fixes_applied, output_path, report,
                   files, dataset, reports, applied, calls>>

\* Pre-cognition is switched off, or the build runs without the guardian
SkipPreCognition ==
    /\ pc = "precog"
    /\ ~(enable_guardian /\ config.predictive_enabled)
    /\ pc' = "loop"
    /\ UNCHANGED <<componentVars, config, healer, prediction, content, enable_guardian, max_retries, attempt,
                   current_content, current_style_overrides, fixes_applied,
                   output_path, report, result, files, dataset, log, reports,
                   applied, calls>>

\* Variant of SkipsToRecommended: the threshold itself already pre-seeds
SkipsToRecommendedInclusive(pred) ==
    /\ pred.prediction_available
    /\ pred.strategy_name # "NONE"
    /\ pred.confidence >= ConfidenceThreshold

\* The condition under which the engine pre-seeds from a prediction
SkipsToRecommended(pred) ==
    /\ pred.prediction_available
    /\ pred.strategy_name # "NONE"
    /\ pred.confidence > ConfidenceThreshold

preemptive_fix(pred) ==
    heal_layout(healer, mock_report(pred.strategy_name), content,
                strategy_to_attempt(pred.strategy_name))

\* Pre-cognition: the predictor is consulted once and may pre-seed the overrides
PreCognition(pred) ==
    /\ pc = "precog"
    /\ enable_guardian /\ config.predictive_enabled
    /\ prediction' = pred
    /\ pc' = "loop"
    /\ IF SkipsToRecommended(pred)
       THEN /\ calls' = Append(calls, Call(healer, mock_report(pred.strategy_name),
                                            content,
                                            strategy_to_attempt(pred.strategy_name),
                                            preemptive_fix(pred)))
            /\ log' = log \o <<Event("predict", 0), Event("heal", 0)>>
            /\ IF DOMAIN preemptive_fix(pred).style_overrides # {}
               THEN /\ current_style_overrides' = preemptive_fix(pred).style_overrides
                    /\ fixes_applied' = Append(fixes_applied,
                            <<"Pre-emptive", pred.strategy_name, "(ML", "confidence:",
                              ToString(pred.confidence) \o "%)">>)
                    /\ applied' = Append(applied, preemptive_fix(pred))
               ELSE UNCHANGED <<current_style_overrides, fixes_applied, applied>>
       ELSE /\ log' = Append(log, Event("predict", 0))
            /\ UNCHANGED <<current_style_overrides, fixes_applied, applied, calls>>
    /\ UNCHANGED <<componentVars, config, healer, content, enable_guardian, max_retries, attempt,
                   current_content, output_path, report, result, files, dataset, reports>>

\* while attempt < max_retries
loop_condition == attempt < max_retries

\* Variant of can_retry: the last attempt is healed too
can_retry_inclusive == attempt <= max_retries

\* if attempt < max_retries (after a rejection)
can_retry == attempt < max_retries

\* Variant of guardian_skipped: the audit is never skipped
guardian_never_skipped == FALSE

\* if not enable_guardian (after the page is built)
guardian_skipped == ~enable_guardian

\* Variant of LoopEnter: the attempt counter is not incremented
LoopEnterNoIncrement ==
    /\ pc = "loop"
    /\ loop_condition
    /\ pc' = "build"
    /\ UNCHANGED <<componentVars, config, healer, prediction, content, enable_guardian, max_retries, attempt,
                   current_content, current_style_overrides, fixes_applied,
                   output_path, report, result, files, dataset, log, reports,
                   applied, calls>>

\* while attempt < max_retries: attempt += 1
LoopEnter ==
    /\ pc = "loop"
    /\ loop_condition
    /\ attempt' = attempt + 1
    /\ pc' = "build"
    /\ UNCHANGED <<componentVars, config, healer, prediction, content, enable_guardian, max_retries,
                   current_content, current_style_overrides, fixes_applied,
                   output_path, report, result, files, dataset, log, reports,
                   applied, calls>>

\* The loop condition is false on entry: the return after the loop
LoopExit ==
    /\ pc = "loop"
    /\ ~loop_condition
    /\ Return(BuildResult(FAILED, NoPath, attempt, NoneVal, <<>>,
                          <<ErrorMsg("Unknown error in build loop", "")>>))
    /\ UNCHANGED <<componentVars, config, healer, prediction, content, enable_guardian, max_retries, attempt,
                   current_content, current_style_overrides, fixes_applied,
                   output_path, report, files, dataset, log, reports, applied, calls>>

\* builder.build_page returns: the page is written under output_filename
BuildPage ==
    /\ pc = "build"
    /\ files' = [files EXCEPT ![OutputFilename] =
                    Artifact(current_content, current_style_overrides, attempt)]
    /\ output_path' = OutputFilename
    /\ log' = Append(log, Event("render", attempt))
    /\ pc' = "built"
    /\ UNCHANGED <<componentVars, config, healer, prediction, content, enable_guardian, max_retries, attempt,
                   current_content, current_style_overrides, fixes_applied,
                   report, result, dataset, reports, applied, calls>>

\* Variant of BuildPageRaises: the error is logged and the attempt retried
BuildPageRaisesRetry(e) ==
    /\ pc = "build"
    /\ log' = Append(log, EventOf("render_raise", attempt, e))
    /\ pc' = "loop"
    /\ UNCHANGED <<componentVars, config, healer, prediction, content, enable_guardian, max_retries, attempt,
                   current_content, current_style_overrides, fixes_applied,
                   output_path, report, result, files, dataset, reports, applied, calls>>

\* builder.build_page raises e
BuildPageRaises(e) ==
    /\ pc = "build"
    /\ log' = Append(log, EventOf("render_raise", attempt, e))
    /\ Return(BuildResult(FAILED, NoPath, attempt, NoneVal, <<>>,
                          <<ErrorMsg("Build error: ", e)>>))
    /\ UNCHANGED <<componentVars, config, healer, prediction, content, enable_guardian, max_retries, attempt,
                   current_content, current_style_overrides, fixes_applied,
                   output_path, report, files, dataset, reports, applied, calls>>

\* self.miner.log_build_event(...) as the engine calls it at a verdict
mined(guardian_verdict, guardian_reason, io_error) ==
    write_row(dataset,
              log_build_event(current_content, current_strategy(fixes_applied),
                              guardian_verdict, guardian_reason,
                              IF DOMAIN current_style_overrides # {}
                              THEN current_style_overrides ELSE NoneVal),
              io_error)

TelemetryEvent(io_error) ==
    EventOf("telemetry", attempt, IF io_error = NoneVal THEN "" ELSE io_error.msg)

WriteFailures ==
    Cardinality({i \in DOMAIN log : log[i].op = "telemetry" /\ log[i].detail # ""})

\* The write outcomes the environment may still produce in this build
CanFail(io_error) == io_error # NoneVal => WriteFailures < MaxWriteFailures

\* except Exception as e around the audit: return FAILED "Guardian error"
GuardianError(msg) ==
    BuildResult(FAILED, output_path, attempt, NoneVal, fixes_applied,
                <<ErrorMsg("Guardian error: ", msg)>>)

\* An exception leaves build_with_self_healing: no BuildResult is returned
Propagate ==
    /\ pc' = "raised"
    /\ UNCHANGED result

\* if not enable_guardian: log the build and return SUCCESS
GuardianDisabled(io_error) ==
    /\ pc = "built"
    /\ guardian_skipped
    /\ CanFail(io_error)
    /\ dataset' = mined(TRUE, "", io_error).dataset
    /\ log' = Append(log, TelemetryEvent(io_error))
    /\ IF mined(TRUE, "", io_error).raised
       THEN Propagate
       ELSE Return(BuildResult(SUCCESS, output_path, attempt, NoneVal, <<>>, <<>>))
    /\ UNCHANGED <<componentVars, config, healer, prediction, content, enable_guardian, max_retries, attempt,
                   current_content, current_style_overrides, fixes_applied,
                   output_path, report, files, reports, applied, calls>>

\* guardian.audit_layout returns an approving report
AuditApproved(rep, io_error) ==
    /\ pc = "built"
    /\ ~guardian_skipped
    /\ rep.approved
    /\ CanFail(io_error)
    /\ report' = rep
    /\ reports' = Append(reports, rep)
    /\ dataset' = mined(TRUE, "", io_error).dataset
    /\ log' = log \o <<Event("audit", attempt), TelemetryEvent(io_error)>>
    /\ IF mined(TRUE, "", io_error).raised
       THEN Return(GuardianError(io_error.msg))
       ELSE Return(BuildResult(SUCCESS, output_path, attempt, rep, fixes_applied, <<>>))
    /\ UNCHANGED <<componentVars, config, healer, prediction, content, enable_guardian, max_retries, attempt,
                   current_content, current_style_overrides, fixes_applied,
                   output_path, files, applied, calls>>

\* guardian.audit_layout returns a rejecting report and attempts remain
AuditRejectedRetry(rep, io_error) ==
    /\ pc = "built"
    /\ ~guardian_skipped
    /\ ~rep.approved
    /\ can_retry
    /\ CanFail(io_error)
    /\ report' = rep
    /\ reports' = Append(reports, rep)
    /\ dataset' = mined(FALSE, rep.reason, io_error).dataset
    /\ log' = log \o <<Event("audit", attempt), TelemetryEvent(io_error)>>
    /\ IF mined(FALSE, rep.reason, io_error).raised
       THEN Return(GuardianError(io_error.msg))
       ELSE /\ pc' = "heal"
            /\ UNCHANGED result
    /\ UNCHANGED <<componentVars, config, healer, prediction, content, enable_guardian, max_retries, attempt,
                   current_content, current_style_overrides, fixes_applied,
                   output_path, files, applied, calls>>

\* Variant of Rename: the rejected page is removed
RenameDeletes(fs, src, dst) ==
    [fs EXCEPT ![src] = NoFile]

\* os.rename(output_path, broken_path)
Rename(fs, src, dst) ==
    [fs EXCEPT ![dst] = fs[src], ![src] = NoFile]

\* guardian.audit_layout returns a rejecting report on the last attempt
AuditRejectedFinal(rep, io_error) ==
    /\ pc = "built"
    /\ ~guardian_skipped
    /\ ~rep.approved
    /\ ~can_retry
    /\ CanFail(io_error)
    /\ report' = rep
    /\ reports' = Append(reports, rep)
    /\ dataset' = mined(FALSE, rep.reason, io_error).dataset
    /\ IF mined(FALSE, rep.reason, io_error).raised
       THEN /\ log' = log \o <<Event("audit", attempt), TelemetryEvent(io_error)>>
            /\ Return(GuardianError(io_error.msg))
            /\ UNCHANGED files
       ELSE /\ files' = Rename(files, output_path, BrokenFilename)
            /\ log' = log \o <<Event("audit", attempt), TelemetryEvent(io_error),
                               Event("rename", attempt)>>
            /\ Return(BuildResult(REJECTED, BrokenFilename, attempt, rep, fixes_applied,
                                  <<ErrorMsg("Guardian rejected after {attempt} attempts",
                                             ToString(attempt))>>))
    /\ UNCHANGED <<componentVars, config, healer, prediction, content, enable_guardian, max_retries, attempt,
                   current_content, current_style_overrides, fixes_applied,
                   output_path, applied, calls>>

\* guardian.audit_layout raises e
AuditRaises(e) ==
    /\ pc = "built"
    /\ ~guardian_skipped
    /\ log' = Append(log, EventOf("audit_raise", attempt, e))
    /\ Return(BuildResult(FAILED, output_path, attempt, NoneVal, fixes_applied,
                          <<ErrorMsg("Guardian error: ", e)>>))
    /\ UNCHANGED <<componentVars, config, healer, prediction, content, enable_guardian, max_retries, attempt,
                   current_content, current_style_overrides, fixes_applied,
                   output_path, report, files, dataset, reports, applied, calls>>

healing_result == heal_layout(healer, report, current_content, attempt)

\* Variant of Heal: the cut is made in the document the caller passed in
HealInPlace ==
    /\ pc = "heal"
    /\ calls' = Append(calls, Call(healer, report, current_content, attempt, healing_result))
    /\ applied' = Append(applied, healing_result)
    /\ IF healing_result.content_modified
       THEN /\ current_content' = healing_result.modified_content
            /\ content' = healing_result.modified_content
            /\ UNCHANGED current_style_overrides
       ELSE /\ current_style_overrides' =
                    DictUpdate(current_style_overrides, healing_result.style_overrides)
            /\ UNCHANGED <<current_content, content>>
    /\ fixes_applied' = Append(fixes_applied,
            <<healing_result.strategy, "(attempt", ToString(attempt) \o ")">>)
    /\ log' = Append(log, Event("heal", attempt))
    /\ pc' = "loop"
    /\ UNCHANGED <<componentVars, config, healer, prediction, enable_guardian, max_retries, attempt,
                   output_path, report, result, files, dataset, reports>>

\* The healer is asked for the next strategy and the build state is updated
Heal ==
    /\ pc = "heal"
    /\ calls' = Append(calls, Call(healer, report, current_content, attempt, healing_result))
    /\ applied' = Append(applied, healing_result)
    /\ IF healing_result.content_modified
       THEN /\ current_content' = healing_result.modified_content
            /\ UNCHANGED current_style_overrides
       ELSE /\ current_style_overrides' =
                    DictUpdate(current_style_overrides, healing_result.style_overrides)
            /\ UNCHANGED current_content
    /\ fixes_applied' = Append(fixes_applied,
            <<healing_result.strategy, "(attempt", ToString(attempt) \o ")">>)
    /\ log' = Append(log, Event("heal", attempt))
    /\ pc' = "loop"
    /\ UNCHANGED <<componentVars, config, healer, prediction, content, enable_guardian, max_retries, attempt,
                   output_path, report, result, files, dataset, reports>>

Next ==
    \/ \E cont \in Contents, guardian \in BOOLEAN : StartBuild(cont, guardian)
    \/ \E cont \in Contents, guardian \in BOOLEAN : StartBuildInvalid(cont, guardian)
    \/ SkipPreCognition
    \/ \E pred \in Predictions : PreCognition(pred)
    \/ LoopEnter
    \/ LoopExit
    \/ BuildPage
    \/ \E e \in RenderErrors : BuildPageRaises(e)
    \/ \E io_error \in WriteOutcomes : GuardianDisabled(io_error)
    \/ \E rep \in ApprovedReports, io_error \in WriteOutcomes : AuditApproved(rep, io_error)
    \/ \E rep \in RejectedReports, io_error \in WriteOutcomes : AuditRejectedRetry(rep, io_error)
    \/ \E rep \in RejectedReports, io_error \in WriteOutcomes : AuditRejectedFinal(rep, io_error)
    \/ \E e \in AuditErrors : AuditRaises(e)
    \/ Heal

Spec == Init /\ [][Next]_vars

\* The build is interrupted between two attempts. build_with_self_healing has
\* no cancellation point and no handler for one: the only way to stop it from
\* outside is an interrupt (KeyboardInterrupt, not an Exception), which no
\* except clause of the loop catches.
Cancel ==
    /\ pc = "loop"
    /\ attempt >= 1
    /\ loop_condition
    /\ log' = Append(log, Event("cancel", attempt))
    /\ Propagate
    /\ UNCHANGED <<componentVars, config, healer, prediction, content, enable_guardian,
                   max_retries, attempt, current_content, current_style_overrides,
                   fixes_applied, output_path, report, files, dataset, reports,
                   applied, calls>>

CancelNext ==
    \/ Next
    \/ Cancel

CancelSpec == Init /\ [][CancelNext]_vars

(***************************************************************************)
(* Collaborators that fail outside the cases of Next                       *)
(***************************************************************************)
\* What the file system may raise under TrinityMiner() and os.rename
OsErrors == {"PermissionError", "FileNotFoundError"}

\* Pre-cognition builds a TrinityMiner of its own to extract the features:
\* its constructor creates the data directory and reads or writes the dataset
\* file, and no try encloses it
PreCognitionRaises(e) ==
    /\ pc = "precog"
    /\ enable_guardian /\ config.predictive_enabled
    /\ log' = Append(log, EventOf("extract_raise", 0, e))
    /\ Propagate
    /\ UNCHANGED <<componentVars, config, healer, prediction, content, enable_guardian,
                   max_retries, attempt, current_content, current_style_overrides,
                   fixes_applied, output_path, report, files, dataset, reports,
                   applied, calls>>

\* The last rejection is logged and os.rename raises e: the except clause
\* around the audit returns FAILED
RenameRaises(rep, e) ==
    /\ pc = "built"
    /\ ~guardian_skipped
    /\ ~rep.approved
    /\ ~can_retry
    /\ report' = rep
    /\ reports' = Append(reports, rep)
    /\ dataset' = mined(FALSE, rep.reason, NoneVal).dataset
    /\ log' = log \o <<Event("audit", attempt), TelemetryEvent(NoneVal),
                       EventOf("rename_raise", attempt, e)>>
    /\ Return(GuardianError(e))
    /\ UNCHANGED <<componentVars, config, healer, prediction, content, enable_guardian,
                   max_retries, attempt, current_content, current_style_overrides,
                   fixes_applied, output_path, files, applied, calls>>

FailureNext ==
    \/ Next
    \/ \E e \in OsErrors : PreCognitionRaises(e)
    \/ \E rep \in RejectedReports, e \in OsErrors : RenameRaises(rep, e)

FailureSpec == Init /\ [][FailureNext]_vars

(***************************************************************************)
(* The healer called directly, as its unit tests call it                   *)
(***************************************************************************)
HealerReports == RejectedReports \cup {mock_report("FONT_SHRINK")}
AttemptArgs == 0..MaxAttemptArg

\* SmartHealer(truncate_length) is constructed
HealerInit ==
    /\ \E t \in TruncateLengths :
          /\ config = [max_retries |-> DefaultMaxRetries, truncate_length |-> t,
                       predictive_enabled |-> TRUE]
          /\ healer = SmartHealer(t)
    /\ _guardian = NoneVal
    /\ _predictor = NoneVal
    /\ Idle

\* healer.heal_layout(guardian_report, content, attempt)
HealLayoutCall(guardian_report, cont, att) ==
    /\ pc = "idle"
    /\ Len(calls) < MaxCalls
    /\ calls' = Append(calls, Call(healer, guardian_report, cont, att,
                                   heal_layout(healer, guardian_report, cont, att)))
    /\ UNCHANGED <<componentVars, config, healer, buildVars>>

HealerNext ==
    \E guardian_report \in HealerReports, cont \in Contents, att \in AttemptArgs :
        HealLayoutCall(guardian_report, cont, att)

HealerSpec == HealerInit /\ [][HealerNext]_vars

TypeOK ==
    /\ pc \in {"idle", "precog", "loop", "build", "built", "heal", "done", "raised"}
    /\ attempt \in 0..(MaxRetriesBound + 1)
    /\ (pc = "done") <=> (result # NoneVal)

(***************************************************************************)
(* LayoutRiskPredictor constructed and called directly                     *)
(***************************************************************************)
FeatureCount == 7            \* len(feature_names) in predict_best_strategy
LegacyFeatureCount == 4      \* a classifier trained on an older feature schema

\* What model_dir holds when the predictor is constructed
ModelDirs ==
    {[dir |-> "missing"], [dir |-> "empty"], [dir |-> "present", pkl |-> "corrupt"]} \cup
    [dir : {"present"}, pkl : {"classifier"},
     n_features_in : {LegacyFeatureCount, FeatureCount},
     sidecar : {"missing", "corrupt", "valid"}]

NotLoaded == [model |-> NoneVal, label_encoders |-> FALSE, is_loaded |-> FALSE]

\* _load_latest_model: the fields it has set when it returns or raises
_load_latest_model(model_dir) ==
    IF model_dir.dir # "present" \/ model_dir.pkl = "corrupt"
    THEN [raised |-> TRUE, self |-> NotLoaded]
    ELSE IF model_dir.sidecar = "corrupt"
    THEN [raised |-> TRUE,
          self |-> [model |-> [n_features_in |-> model_dir.n_features_in],
                    label_encoders |-> FALSE, is_loaded |-> FALSE]]
    ELSE [raised |-> FALSE,
          self |-> [model |-> [n_features_in |-> model_dir.n_features_in],
                    label_encoders |-> (model_dir.sidecar = "valid"),
                    is_loaded |-> TRUE]]

\* Variant of LayoutRiskPredictor: the loading error leaves the constructor
LayoutRiskPredictorUnguarded(model_dir) ==
    _load_latest_model(model_dir)

\* __init__: try: self._load_latest_model() except Exception: logger.warning(...)
LayoutRiskPredictor(model_dir) ==
    [raised |-> FALSE, self |-> _load_latest_model(model_dir).self]

\* STRATEGY_MAP.get(strategy_id, "UNKNOWN")
StrategyName(strategy_id) ==
    CASE strategy_id = 0 -> "NONE"
      [] strategy_id = 1 -> "CSS_BREAK_WORD"
      [] strategy_id = 2 -> "FONT_SHRINK"
      [] strategy_id = 3 -> "CSS_TRUNCATE"
      [] strategy_id = 4 -> "CONTENT_CUT"
      [] strategy_id = 99 -> "UNRESOLVED_FAIL"
      [] OTHER -> "UNKNOWN"

ClassIds == {0, 1, 2, 3, 4, 7, 99}

\* What the classifier does with a row of FeatureCount features: it raises, or
\* it predicts a class with a probability
Inferences ==
    {[kind |-> "raise"]} \cup
    [kind : {"class"}, class_id : ClassIds, confidence : Confidences]

\* model.predict_proba(X) raises: the classifier rejects a row whose width
\* differs from the one it was fitted on, or inference itself fails
InferenceRaises(self, inference) ==
    \/ self.model.n_features_in # FeatureCount
    \/ inference.kind = "raise"

\* Variant of predict_best_strategy: no except clause around inference
predict_best_strategy_unguarded(self, inference) ==
    IF ~self.is_loaded \/ self.model = NoneVal
    THEN [raised |-> FALSE, value |-> FallbackPrediction]
    ELSE IF InferenceRaises(self, inference)
    THEN [raised |-> TRUE, value |-> NoneVal]
    ELSE [raised |-> FALSE,
          value |-> [strategy_name |-> StrategyName(inference.class_id),
                     confidence |-> inference.confidence,
                     prediction_available |-> TRUE]]

\* predict_best_strategy: fallback when no model is loaded, and the same
\* fallback from the except clause when inference raises
predict_best_strategy(self, inference) ==
    IF ~self.is_loaded \/ self.model = NoneVal
    THEN [raised |-> FALSE, value |-> FallbackPrediction]
    ELSE IF InferenceRaises(self, inference)
    THEN [raised |-> FALSE, value |-> FallbackPrediction]
    ELSE [raised |-> FALSE,
          value |-> [strategy_name |-> StrategyName(inference.class_id),
                     confidence |-> inference.confidence,
                     prediction_available |-> TRUE]]

PredictorInit ==
    /\ config = [max_retries |-> DefaultMaxRetries,
                 truncate_length |-> DefaultTruncateLength,
                 predictive_enabled |-> TRUE]
    /\ healer = SmartHealer(DefaultTruncateLength)
    /\ _guardian = NoneVal
    /\ _predictor = NoneVal
    /\ Idle

\* LayoutRiskPredictor(model_dir) is constructed
Construct(model_dir) ==
    /\ _predictor = NoneVal
    /\ predicted = <<>>
    /\ _predictor' = LayoutRiskPredictor(model_dir).self
    /\ predicted' = <<[op |-> "init", model_dir |-> model_dir,
                       raised |-> LayoutRiskPredictor(model_dir).raised]>>
    /\ UNCHANGED <<utilVars, config, healer, buildVars, calls, _guardian, audits>>

\* predictor.predict_best_strategy(content, theme, ...)
PredictCall(inference) ==
    /\ predicted # <<>>
    /\ ~predicted[1].raised
    /\ Len(predicted) < 1 + MaxPredictions
    /\ predicted' = Append(predicted,
            [op |-> "predict", inference |-> inference,
             raised |-> predict_best_strategy(_predictor, inference).raised,
             value |-> predict_best_strategy(_predictor, inference).value])
    /\ UNCHANGED <<utilVars, config, healer, buildVars, calls, _guardian, audits, _predictor>>

PredictorNext ==
    \/ \E model_dir \in ModelDirs : Construct(model_dir)
    \/ \E inference \in Inferences : PredictCall(inference)

PredictorSpec == PredictorInit /\ [][PredictorNext]_vars

(***************************************************************************)
(* TrinityGuardian constructed and called directly                         *)
(*  - reason and each issue are sequences of words, so that what a reason  *)
(*    mentions is computed from its text.                                  *)
(*  - a parsed JSON object is a function from its keys, so that a missing  *)
(*    key is a key outside its DOMAIN.                                     *)
(***************************************************************************)
TrinityGuardian(enable_vision_ai) == [enable_vision_ai |-> enable_vision_ai]

\* What the headless browser does in _check_dom_overflow: the script finds an
\* overflowing element, finds none, or the browser fails
DomOutcomes == {"overflow", "clean", "error"}

\* Variant of _check_dom_overflow: the script's verdict is dropped
_check_dom_overflow_blind(dom) == FALSE

\* _check_dom_overflow: the script's verdict; except Exception: return False
_check_dom_overflow(dom) == dom = "overflow"

\* What _capture_screenshot meets: the file is missing (FileNotFoundError is
\* raised before the try), the browser fails (None), or an image is captured
ShotOutcomes == {"missing_file", "error", "image"}

VisionExceptions == {"APIConnectionError", "APITimeoutError", "APIError", "RuntimeError"}

Issue == <<"Hero", "title", "overflows", "its", "card">>

\* JSON objects the vision model may answer with
JsonObjects ==
    {[status |-> "pass", issues |-> <<>>, fix_suggestion |-> "none"],
     [status |-> "fail", issues |-> <<Issue>>, fix_suggestion |-> "truncate"],
     [status |-> "warning", issues |-> <<>>, fix_suggestion |-> "none"],
     [status |-> "fail"],
     [issues |-> <<Issue>>, fix_suggestion |-> "truncate"]}

\* What client.chat.completions.create does: it raises, or it returns a message
\* whose content is None, is not JSON, is a JSON list, or is a JSON object
VisionResponses ==
    [kind : {"raise"}, exc : VisionExceptions] \cup
    {[kind |-> "none"], [kind |-> "text"], [kind |-> "json_list"]} \cup
    [kind : {"json"}, value : JsonObjects]

AutoApproved(issue) ==
    [status |-> "pass", issues |-> <<issue>>, fix_suggestion |-> "none"]

\* _analyze_with_vision: the parsed answer, or the auto-approval of the
\* except clause that catches the failure
_analyze_with_vision(response) ==
    CASE response.kind = "json" -> response.value
      [] response.kind = "raise" /\ response.exc # "RuntimeError" ->
            AutoApproved(<<"Vision", "AI", "unavailable", "-", "auto-approved">>)
      [] response.kind = "text" ->
            AutoApproved(<<"Vision", "AI", "response", "invalid", "-", "auto-approved">>)
      [] OTHER ->
            AutoApproved(<<"Vision", "AI", "error", "-", "auto-approved">>)

\* dict.get(key, default)
Get(d, key, default) == IF key \in DOMAIN d THEN d[key] ELSE default

\* ', '.join(issues), as words
RECURSIVE Join(_)
Join(issues) ==
    IF issues = <<>> THEN <<>> ELSE Head(issues) \o Join(Tail(issues))

AuditReport(approved, reason, issues, fix_suggestion) ==
    [approved |-> approved, status |-> IF approved THEN "pass" ELSE "fail",
     reason |-> reason, issues |-> issues, fix_suggestion |-> fix_suggestion]

Returns(rep) == [raised |-> FALSE, report |-> rep]
Raises(exc) == [raised |-> TRUE, exc |-> exc]

\* Phase 2 of audit_layout once the screenshot is taken
combine(dom_overflow, vision_analysis) ==
    IF "status" \notin DOMAIN vision_analysis THEN Raises("KeyError")
    ELSE IF dom_overflow /\ vision_analysis.status = "pass"
    THEN Returns(AuditReport(TRUE,
              <<"DOM", "overflow", "detected", "but", "visually", "acceptable">>,
              Get(vision_analysis, "issues", <<>>),
              Get(vision_analysis, "fix_suggestion", "none")))
    ELSE IF vision_analysis.status = "fail"
    THEN IF "issues" \notin DOMAIN vision_analysis THEN Raises("KeyError")
         ELSE Returns(AuditReport(FALSE,
                   <<"Visual", "layout", "bugs", "detected:">> \o
                       Join(vision_analysis.issues),
                   vision_analysis.issues,
                   Get(vision_analysis, "fix_suggestion", "none")))
    ELSE Returns(AuditReport(TRUE, <<"Layout", "passed", "all", "checks">>,
                   Get(vision_analysis, "issues", <<>>),
                   Get(vision_analysis, "fix_suggestion", "none")))

\* Variant of audit_layout: an overflow found by Phase 1 always rejects
audit_layout_dom_veto(self, dom, shot, response) ==
    IF _check_dom_overflow(dom)
    THEN Returns(AuditReport(FALSE,
              <<"DOM", "overflow", "detected", "(horizontal", "or", "vertical)">>,
              <<<<"Text", "or", "content", "overflowing", "container", "boundaries">>>>,
              "truncate"))
    ELSE IF self.enable_vision_ai
    THEN IF shot = "missing_file" THEN Raises("FileNotFoundError")
         ELSE IF shot = "error"
         THEN Returns(AuditReport(TRUE,
                   <<"Screenshot", "unavailable", "-", "approved", "by", "default">>,
                   <<>>, "none"))
         ELSE combine(FALSE, _analyze_with_vision(response))
    ELSE Returns(AuditReport(TRUE, <<"DOM", "checks", "passed">>, <<>>, "none"))

\* audit_layout(html_path)
audit_layout(self, dom, shot, response) ==
    IF _check_dom_overflow(dom) /\ ~self.enable_vision_ai
    THEN Returns(AuditReport(FALSE,
              <<"DOM", "overflow", "detected", "(horizontal", "or", "vertical)">>,
              <<<<"Text", "or", "content", "overflowing", "container", "boundaries">>>>,
              "truncate"))
    ELSE IF self.enable_vision_ai
    THEN IF shot = "missing_file" THEN Raises("FileNotFoundError")
         ELSE IF shot = "error"
         THEN Returns(AuditReport(TRUE,
                   <<"Screenshot", "unavailable", "-", "approved", "by", "default">>,
                   <<>>, "none"))
         ELSE combine(_check_dom_overflow(dom), _analyze_with_vision(response))
    ELSE Returns(AuditReport(~_check_dom_overflow(dom),
              IF _check_dom_overflow(dom) THEN <<"DOM", "overflow", "detected">>
              ELSE <<"DOM", "checks", "passed">>,
              IF _check_dom_overflow(dom)
              THEN <<<<"Horizontal", "or", "vertical", "overflow", "detected">>>>
              ELSE <<>>,
              IF _check_dom_overflow(dom) THEN "truncate" ELSE "none"))

GuardianInit ==
    /\ config = [max_retries |-> DefaultMaxRetries,
                 truncate_length |-> DefaultTruncateLength,
                 predictive_enabled |-> TRUE]
    /\ healer = SmartHealer(DefaultTruncateLength)
    /\ \E enable_vision_ai \in BOOLEAN : _guardian = TrinityGuardian(enable_vision_ai)
    /\ _predictor = NoneVal
    /\ Idle

\* guardian.audit_layout(html_path): a missing file is a page the browser
\* cannot load
AuditLayoutCall(dom, shot, response) ==
    /\ Len(audits) < MaxAudits
    /\ shot = "missing_file" => dom = "error"
    /\ audits' = Append(audits,
            [dom |-> dom, shot |-> shot, response |-> response,
             outcome |-> audit_layout(_guardian, dom, shot, response)])
    /\ UNCHANGED <<utilVars, config, healer, buildVars, calls, _guardian, _predictor, predicted>>

GuardianNext ==
    \E dom \in DomOutcomes, shot \in ShotOutcomes, response \in VisionResponses :
        AuditLayoutCall(dom, shot, response)

GuardianSpec == GuardianInit /\ [][GuardianNext]_vars

(***************************************************************************)
(* LayoutRiskTrainer.train_from_csv                                        *)
(*                                                                         *)
(* Scores lie in 0..1.  sklearn computes them as floats: the model carries *)
(* a computed score in units of 1e-5 and a score after round(x, 4) in      *)
(* units of 1e-4.  What the classifier scores on the held-out split is an  *)
(* input of a run.                                                         *)
(***************************************************************************)
MaxTrainings == 1

MIN_F1_SCORE == 6000         \* 0.6
MIN_PRECISION == 5000        \* 0.5
MIN_RECALL == 5000           \* 0.5

\* round(x, 4); no score of the model lies at a tie
round4(x) == (x + 5) \div 10

RawScores == {49994, 49996, 59994, 59996, 60000}
HeldOutScores == [f1_score : RawScores, precision : RawScores, recall : RawScores]

\* What load_and_prep_data finds in the CSV
PrepOutcomes == {"ok", "FileNotFoundError", "InsufficientDataError", "DataValidationError"}

\* load_and_prep_data(csv_path)
load_and_prep_data(prep) ==
    IF prep = "ok"
    THEN [raised |-> FALSE, error |-> ""]
    ELSE [raised |-> TRUE, error |-> prep]

\* _evaluate_model(model, X_test, y_test), scores being what sklearn computes
\* for the model on the held-out split
_evaluate_model(scores) ==
    LET metrics == [precision |-> round4(scores.precision),
                    recall |-> round4(scores.recall),
                    f1_score |-> round4(scores.f1_score)]
        failures == (IF metrics.f1_score < MIN_F1_SCORE THEN {"F1-Score"} ELSE {})
                    \cup (IF metrics.precision < MIN_PRECISION THEN {"Precision"} ELSE {})
                    \cup (IF metrics.recall < MIN_RECALL THEN {"Recall"} ELSE {})
    IN  IF failures # {}
        THEN [raised |-> TRUE, error |-> "ModelPerformanceError", metrics |-> metrics]
        ELSE [raised |-> FALSE, error |-> "", metrics |-> metrics]

\* train_model(X, y): fit, then evaluate on the held-out split
train_model(scores) ==
    [raised |-> _evaluate_model(scores).raised,
     error |-> _evaluate_model(scores).error,
     model |-> [scores |-> scores]]

\* save_model(model, output_dir, metrics): the pickle and its metadata sidecar
save_model(dir, model, metrics) ==
    Append(dir, [model |-> model, metadata |-> [metrics |-> metrics]])

\* train_from_csv(csv_path, output_dir)
train_from_csv(dir, prep, scores) ==
    IF load_and_prep_data(prep).raised
    THEN [raised |-> TRUE, error |-> load_and_prep_data(prep).error, dir |-> dir]
    ELSE IF train_model(scores).raised
    THEN [raised |-> TRUE, error |-> train_model(scores).error, dir |-> dir]
    ELSE IF _evaluate_model(scores).raised
    THEN [raised |-> TRUE, error |-> _evaluate_model(scores).error, dir |-> dir]
    ELSE [raised |-> FALSE, error |-> "",
          dir |-> save_model(dir, train_model(scores).model,
                             _evaluate_model(scores).metrics)]

TrainerInit ==
    /\ config = [max_retries |-> DefaultMaxRetries,
                 truncate_length |-> DefaultTruncateLength,
                 predictive_enabled |-> TRUE]
    /\ healer = SmartHealer(DefaultTruncateLength)
    /\ _guardian = NoneVal
    /\ _predictor = NoneVal
    /\ Idle

\* trainer.train_from_csv(csv_path, output_dir) is run
TrainFromCsv(prep, scores) ==
    /\ Len(trained) < MaxTrainings
    /\ models' = train_from_csv(models, prep, scores).dir
    /\ trained' = Append(trained,
            [prep |-> prep, scores |-> scores,
             raised |-> train_from_csv(models, prep, scores).raised,
             error |-> train_from_csv(models, prep, scores).error,
             written |-> Len(train_from_csv(models, prep, scores).dir) - Len(models)])
    /\ UNCHANGED <<config, healer, buildVars, calls, _guardian, audits, _predictor, predicted,
                   generated, breakerVars, idemVars, cacheVars>>

TrainerNext ==
    \E prep \in PrepOutcomes, scores \in HeldOutScores : TrainFromCsv(prep, scores)

TrainerSpec == TrainerInit /\ [][TrainerNext]_vars

(***************************************************************************)
(* ContentEngine and TrinityEngine.build_with_llm                          *)
(*                                                                         *)
(* What the LLM answers on each attempt, whether the raw text file exists  *)
(* and what the fallback file holds are inputs of a call.                  *)
(***************************************************************************)
MaxGenerations == 1

LlmMaxRetries == 3           \* max_retries default of ContentEngine.__init__

\* Keyword parameters of ContentEngine.__init__
ContentEngineParams ==
    {"base_url", "api_key", "model_id", "max_retries", "enable_text_processing"}

\* Keyword arguments build_with_llm constructs the ContentEngine with
BuildWithLlmKwargs == {"lm_studio_url", "timeout"}

\* ContentEngine(**kwargs)
ContentEngine(kwargs) ==
    IF kwargs \subseteq ContentEngineParams
    THEN [raised |-> FALSE, self |-> [max_retries |-> LlmMaxRetries]]
    ELSE [raised |-> TRUE, exc |-> "TypeError"]

\* One LLM attempt: a valid document, or what goes wrong
LlmOutcomes == {"valid", "JSONDecodeError", "APIError", "APIConnectionError"}
LlmResponses == [1..LlmMaxRetries -> LlmOutcomes]

\* The document the LLM writes and the static document of the fallback file
GeneratedDocument == ShortContent
StaticDocument == LongContent

FallbackFiles == {"present", "absent", "corrupt"}

\* The retry loop of generate_content from attempt att on
RECURSIVE generate_attempts(_, _, _)
generate_attempts(self, responses, att) ==
    IF att > self.max_retries THEN [raised |-> TRUE, exc |-> "ContentEngineError"]
    ELSE IF responses[att] = "valid" THEN [raised |-> FALSE, content |-> GeneratedDocument]
    ELSE IF responses[att] = "APIConnectionError"
    THEN [raised |-> TRUE, exc |-> "ContentEngineError"]
    ELSE generate_attempts(self, responses, att + 1)

\* generate_content(raw_text_path, theme)
generate_content(self, raw_exists, responses) ==
    IF ~raw_exists THEN [raised |-> TRUE, exc |-> "FileNotFoundError"]
    ELSE generate_attempts(self, responses, 1)

\* generate_content_with_fallback(raw_text_path, theme, fallback_path)
generate_content_with_fallback(self, raw_exists, responses, fallback) ==
    LET generation == generate_content(self, raw_exists, responses)
    IN  IF generation.raised /\ generation.exc = "ContentEngineError"
        THEN CASE fallback = "present" -> [raised |-> FALSE, content |-> StaticDocument]
               [] fallback = "corrupt" -> [raised |-> TRUE, exc |-> "JSONDecodeError"]
               [] OTHER -> generation
        ELSE generation

\* The try block of build_with_llm up to the content
llm_content(raw_exists, responses, fallback) ==
    IF ContentEngine(BuildWithLlmKwargs).raised
    THEN ContentEngine(BuildWithLlmKwargs)
    ELSE generate_content_with_fallback(ContentEngine(BuildWithLlmKwargs).self,
                                        raw_exists, responses, fallback)

Generation(op, raw_exists, responses, fallback, outcome) ==
    [op |-> op, raw_exists |-> raw_exists, responses |-> responses,
     fallback |-> fallback, outcome |-> outcome]

ContentInit ==
    /\ config = [max_retries |-> DefaultMaxRetries,
                 truncate_length |-> DefaultTruncateLength,
                 predictive_enabled |-> TRUE]
    /\ healer = SmartHealer(DefaultTruncateLength)
    /\ _guardian = NoneVal
    /\ _predictor = NoneVal
    /\ Idle

\* ContentEngine().generate_content_with_fallback(...) called directly
GenerateCall(raw_exists, responses, fallback) ==
    /\ pc = "idle"
    /\ Len(generated) < MaxGenerations
    /\ generated' = Append(generated,
            Generation("generate", raw_exists, responses, fallback,
                generate_content_with_fallback(ContentEngine({}).self,
                                               raw_exists, responses, fallback)))
    /\ UNCHANGED <<config, healer, buildVars, calls, _guardian, audits, _predictor, predicted,
                   models, trained, breakerVars, idemVars, cacheVars>>

\* engine.build_with_llm(raw_text_path, theme, output_filename, enable_guardian):
\* an exception before build_with_self_healing returns FAILED; otherwise the
\* build starts with the content obtained
BuildWithLlm(raw_exists, responses, fallback, guardian) ==
    /\ pc = "idle"
    /\ Len(generated) < MaxGenerations
    /\ generated' = Append(generated,
            Generation("build_with_llm", raw_exists, responses, fallback,
                       llm_content(raw_exists, responses, fallback)))
    /\ IF llm_content(raw_exists, responses, fallback).raised
       THEN /\ log' = Append(log, Event("llm_raise", 0))
            /\ Return(BuildResult(FAILED, NoPath, 0, NoneVal, <<>>,
                   <<ErrorMsg("LLM generation failed: ",
                              llm_content(raw_exists, responses, fallback).exc)>>))
            /\ UNCHANGED <<content, enable_guardian, max_retries, attempt, current_content,
                           current_style_overrides, fixes_applied>>
       ELSE /\ content' = llm_content(raw_exists, responses, fallback).content
            /\ enable_guardian' = guardian
            /\ max_retries' = IF guardian THEN config.max_retries ELSE 1
            /\ attempt' = 0
            /\ current_content' = content'
            /\ current_style_overrides' = EmptyDict
            /\ fixes_applied' = <<>>
            /\ pc' = "precog"
            /\ log' = Append(log, Event("validate", 0))
            /\ UNCHANGED result
    /\ UNCHANGED <<config, healer, prediction, output_path, report, files, dataset,
                   reports, applied, calls, _guardian, audits, _predictor, predicted,
                   models, trained, breakerVars, idemVars, cacheVars>>

ContentNext ==
    \/ \E raw_exists \in BOOLEAN, responses \in LlmResponses, fallback \in FallbackFiles :
           GenerateCall(raw_exists, responses, fallback)
    \/ \E raw_exists \in BOOLEAN, responses \in LlmResponses, fallback \in FallbackFiles,
          guardian \in BOOLEAN :
           BuildWithLlm(raw_exists, responses, fallback, guardian)

ContentSpec == ContentInit /\ [][ContentNext]_vars

(***************************************************************************)
(* CircuitBreaker                                                          *)
(*                                                                         *)
(* The protected function is an input of a call: it returns, or raises an  *)
(* exception of some class.  time.time() is the clock, in whole seconds.   *)
(***************************************************************************)
MaxThreshold == 3
MaxClock == 3
MaxBreakerCalls == 4

CLOSED == "closed"
OPEN == "open"
HALF_OPEN == "half_open"
CircuitState == {CLOSED, OPEN, HALF_OPEN}

DefaultHalfOpenMaxAttempts == 1

\* CircuitBreakerStats()
CircuitBreakerStats ==
    [total_requests |-> 0, successful_requests |-> 0, failed_requests |-> 0,
     state_changes |-> 0]

\* CircuitBreaker(failure_threshold, recovery_timeout, expected_exception,
\*                half_open_max_attempts)
CircuitBreaker(failure_threshold, recovery_timeout, expected_exception, half_open_max_attempts) ==
    [failure_threshold |-> failure_threshold,
     recovery_timeout |-> recovery_timeout,
     expected_exception |-> expected_exception,
     half_open_max_attempts |-> half_open_max_attempts,
     _state |-> CLOSED,
     _failure_count |-> 0,
     _last_failure_time |-> NoneVal,
     _half_open_attempts |-> 0,
     _stats |-> CircuitBreakerStats]

At(t) == [at |-> t]

\* What the protected function does when it is invoked
Behaviours == {"returns", "ValueError", "RuntimeError"}
ExpectedExceptions == {"ValueError", "Exception"}
RecoveryTimeouts == {1, 2}
HalfOpenMaxAttempts == {DefaultHalfOpenMaxAttempts, 2}

\* isinstance(exc, cls) for the exception classes of the model
isinstance(exc, cls) == cls = "Exception" \/ exc = cls

_should_attempt_reset_always(self, now) == TRUE

_should_attempt_reset(self, now) ==
    IF self._last_failure_time = NoneVal THEN FALSE
    ELSE now - self._last_failure_time.at >= self.recovery_timeout

CountTwice(self, counter) ==
    [self EXCEPT !._stats[counter] = @ + 2]

\* self._stats.<counter> += 1
Count(self, counter) ==
    [self EXCEPT !._stats[counter] = @ + 1]

_on_success_stays(self) == Count(self, "successful_requests")

_on_success(self) ==
    LET counted == Count(self, "successful_requests")
    IN  IF counted._state = HALF_OPEN
        THEN [Count(counted, "state_changes") EXCEPT
                  !._state = CLOSED, !._failure_count = 0, !._half_open_attempts = 0]
        ELSE IF counted._state = CLOSED
        THEN [counted EXCEPT !._failure_count = 0]
        ELSE counted

_on_failure_late(self, now) ==
    LET counted == [Count(self, "failed_requests") EXCEPT
                        !._last_failure_time = At(now),
                        !._failure_count = @ + 1]
    IN  IF counted._state = HALF_OPEN
        THEN [Count(counted, "state_changes") EXCEPT
                  !._state = OPEN, !._half_open_attempts = 0]
        ELSE IF counted._state = CLOSED /\ counted._failure_count > counted.failure_threshold
        THEN [Count(counted, "state_changes") EXCEPT !._state = OPEN]
        ELSE counted

_on_failure(self, now) ==
    LET counted == [Count(self, "failed_requests") EXCEPT
                        !._last_failure_time = At(now),
                        !._failure_count = @ + 1]
    IN  IF counted._state = HALF_OPEN
        THEN [Count(counted, "state_changes") EXCEPT
                  !._state = OPEN, !._half_open_attempts = 0]
        ELSE IF counted._state = CLOSED /\ counted._failure_count >= counted.failure_threshold
        THEN [Count(counted, "state_changes") EXCEPT !._state = OPEN]
        ELSE counted

\* The recovery check at the head of _call
attempt_recovery(self, now) ==
    IF self._state = OPEN /\ _should_attempt_reset(self, now)
    THEN [Count(self, "state_changes") EXCEPT !._state = HALF_OPEN, !._half_open_attempts = 0]
    ELSE self

\* func(*args, **kwargs) under the try of _call
execute(self, now, behaviour) ==
    IF behaviour = "returns"
    THEN [self |-> _on_success(self), invoked |-> TRUE, raised |-> "none"]
    ELSE IF isinstance(behaviour, self.expected_exception)
    THEN [self |-> _on_failure(self, now), invoked |-> TRUE, raised |-> behaviour]
    ELSE [self |-> self, invoked |-> TRUE, raised |-> behaviour]

\* _call(func, *args, **kwargs)
_call(self, now, behaviour) ==
    LET checked == attempt_recovery(Count(self, "total_requests"), now)
    IN  IF checked._state = OPEN
        THEN [self |-> checked, invoked |-> FALSE, raised |-> "CircuitOpenError"]
        ELSE IF checked._state = HALF_OPEN
        THEN IF checked._half_open_attempts >= checked.half_open_max_attempts
             THEN [self |-> checked, invoked |-> FALSE, raised |-> "CircuitHalfOpenError"]
             ELSE execute([checked EXCEPT !._half_open_attempts = @ + 1], now, behaviour)
        ELSE execute(checked, now, behaviour)

\* reset()
reset(self) ==
    [Count(self, "state_changes") EXCEPT
         !._state = CLOSED, !._failure_count = 0, !._half_open_attempts = 0,
         !._last_failure_time = NoneVal]

BreakerInit ==
    /\ config = [max_retries |-> DefaultMaxRetries,
                 truncate_length |-> DefaultTruncateLength,
                 predictive_enabled |-> TRUE]
    /\ healer = SmartHealer(DefaultTruncateLength)
    /\ _guardian = NoneVal
    /\ _predictor = NoneVal
    /\ Idle

\* A breaker is constructed
NewBreaker(failure_threshold, recovery_timeout, expected_exception, half_open_max_attempts) ==
    /\ breaker = NoneVal
    /\ breaker' = CircuitBreaker(failure_threshold, recovery_timeout, expected_exception,
                                 half_open_max_attempts)
    /\ UNCHANGED <<config, healer, buildVars, calls, _guardian, audits, _predictor, predicted,
                   models, trained, generated, clock, breaker_calls, idemVars, cacheVars>>

\* breaker.call(func): func behaves as behaviour says when it is invoked
BreakerCall(behaviour) ==
    /\ breaker # NoneVal
    /\ Len(breaker_calls) < MaxBreakerCalls
    /\ breaker' = _call(breaker, clock, behaviour).self
    /\ breaker_calls' = Append(breaker_calls,
            [op |-> "call", behaviour |-> behaviour, now |-> clock, before |-> breaker,
             invoked |-> _call(breaker, clock, behaviour).invoked,
             raised |-> _call(breaker, clock, behaviour).raised,
             after |-> _call(breaker, clock, behaviour).self._state])
    /\ UNCHANGED <<config, healer, buildVars, calls, _guardian, audits, _predictor, predicted,
                   models, trained, generated, clock, idemVars, cacheVars>>

\* breaker.reset()
BreakerReset ==
    /\ breaker # NoneVal
    /\ Len(breaker_calls) < MaxBreakerCalls
    /\ breaker' = reset(breaker)
    /\ breaker_calls' = Append(breaker_calls,
            [op |-> "reset", behaviour |-> "none", now |-> clock, before |-> breaker,
             invoked |-> FALSE, raised |-> "none", after |-> reset(breaker)._state])
    /\ UNCHANGED <<config, healer, buildVars, calls, _guardian, audits, _predictor, predicted,
                   models, trained, generated, clock, idemVars, cacheVars>>

\* A second passes
Tick ==
    /\ breaker # NoneVal
    /\ clock < MaxClock
    /\ clock' = clock + 1
    /\ UNCHANGED <<config, healer, buildVars, calls, _guardian, audits, _predictor, predicted,
                   models, trained, generated, breaker, breaker_calls, idemVars, cacheVars>>

BreakerNext ==
    \/ \E failure_threshold \in 1..MaxThreshold, recovery_timeout \in RecoveryTimeouts,
          expected_exception \in ExpectedExceptions,
          half_open_max_attempts \in HalfOpenMaxAttempts :
           NewBreaker(failure_threshold, recovery_timeout, expected_exception,
                      half_open_max_attempts)
    \/ \E behaviour \in Behaviours : BreakerCall(behaviour)
    \/ BreakerReset
    \/ Tick

BreakerSpec == BreakerInit /\ [][BreakerNext]_vars

(***************************************************************************)
(* IdempotencyKeyManager and the idempotent decorator                      *)
(*                                                                         *)
(* A Python value is a record: PyStr(s) for a string, NoneVal for None.    *)
(* datetime.now() is the clock.  The cache is the in-memory one.           *)
(***************************************************************************)
MaxIdemCalls == 3

ModelDefaultTtl == 2         \* default_ttl of the manager, in clock seconds

PyStr(s) == [str |-> s]

\* bool(value)
truthy(value) == value # NoneVal /\ value # PyStr("")

\* What a wrapped function returns when it runs
Results == {PyStr("page"), PyStr(""), NoneVal}

\* The wrapped functions: name and the ttl given to the decorator (0 for None)
Functions == {[name |-> "generate_content", ttl |-> 0], [name |-> "heal", ttl |-> 1]}
Themes == {"brutalist", "editorial"}

\* IdempotencyKeyManager(default_ttl=..., enable_persistence=False)
IdempotencyKeyManager(default_ttl) ==
    [default_ttl |-> default_ttl, _cache |-> <<>>]

\* generate_key(**kwargs): the SHA-256 of the JSON text with sorted keys, one
\* key per parameter dictionary
generate_key(kwargs) == [sha256 |-> kwargs]

\* IdempotentResult.is_expired()
is_expired(entry, now) == now > entry.expires_at

\* self._cache[key] = value and del self._cache[key]
SetItem(d, key, value) ==
    [k \in DOMAIN d \cup {key} |-> IF k = key THEN value ELSE d[k]]
DelItem(d, key) ==
    [k \in DOMAIN d \ {key} |-> d[k]]

\* store_result(key, result, ttl)
store_result(self, now, key, res, ttl) ==
    [self EXCEPT !._cache =
        SetItem(@, key,
                [result |-> res, timestamp |-> now,
                 expires_at |-> now + (IF ttl # 0 THEN ttl ELSE self.default_ttl)])]

\* get_result(key): the manager afterwards and the value returned
get_result(self, now, key) ==
    IF key \notin DOMAIN self._cache
    THEN [self |-> self, value |-> NoneVal]
    ELSE IF is_expired(self._cache[key], now)
    THEN [self |-> [self EXCEPT !._cache = DelItem(@, key)], value |-> NoneVal]
    ELSE [self |-> self, value |-> self._cache[key].result]

\* The key the wrapper builds with key_params=['theme']
wrapper_key(func, theme) ==
    generate_key([theme |-> theme, __func__ |-> func.name])

\* wrapper(*args, **kwargs) of idempotent(manager, key_params, ttl)(func); ret
\* is what func returns if it runs
wrapper(self, now, func, theme, ret) ==
    LET key == wrapper_key(func, theme)
        cached == get_result(self, now, key)
    IN  IF truthy(cached.value)
        THEN [self |-> cached.self, executed |-> FALSE, value |-> cached.value]
        ELSE [self |-> store_result(cached.self, now, key, ret, func.ttl),
              executed |-> TRUE, value |-> ret]

IdemInit ==
    /\ config = [max_retries |-> DefaultMaxRetries,
                 truncate_length |-> DefaultTruncateLength,
                 predictive_enabled |-> TRUE]
    /\ healer = SmartHealer(DefaultTruncateLength)
    /\ _guardian = NoneVal
    /\ _predictor = NoneVal
    /\ Idle

\* manager = IdempotencyKeyManager(...)
NewManager ==
    /\ manager = NoneVal
    /\ manager' = IdempotencyKeyManager(ModelDefaultTtl)
    /\ UNCHANGED <<config, healer, buildVars, calls, _guardian, audits, _predictor, predicted,
                   models, trained, generated, breakerVars, idem_calls, threads, disk,
                   cacheVars>>

\* A call of a wrapped function
WrappedCall(func, theme, ret) ==
    /\ manager # NoneVal
    /\ Len(idem_calls) < MaxIdemCalls
    /\ manager' = wrapper(manager, clock, func, theme, ret).self
    /\ idem_calls' = Append(idem_calls,
            [func |-> func, theme |-> theme, ret |-> ret, now |-> clock,
             before |-> manager,
             executed |-> wrapper(manager, clock, func, theme, ret).executed,
             value |-> wrapper(manager, clock, func, theme, ret).value])
    /\ UNCHANGED <<config, healer, buildVars, calls, _guardian, audits, _predictor, predicted,
                   models, trained, generated, breakerVars, threads, disk, cacheVars>>

\* A second passes
IdemTick ==
    /\ manager # NoneVal
    /\ clock < MaxClock
    /\ clock' = clock + 1
    /\ UNCHANGED <<config, healer, buildVars, calls, _guardian, audits, _predictor, predicted,
                   models, trained, generated, breaker, breaker_calls, manager, idem_calls,
                   threads, disk, cacheVars>>

IdemNext ==
    \/ NewManager
    \/ \E func \in Functions, theme \in Themes, ret \in Results : WrappedCall(func, theme, ret)
    \/ IdemTick

IdemSpec == IdemInit /\ [][IdemNext]_vars

(***************************************************************************)
(* Threads calling the idempotency manager concurrently                    *)
(*                                                                         *)
(* The manager has persistence enabled.  A step is what a thread does      *)
(* while it holds the manager's lock, or one statement made outside it;    *)
(* between two steps any other thread may run.  The persisted file holds   *)
(* the entries as json.dump writes them.                                   *)
(***************************************************************************)
MaxThreads == 2

ThreadRets == {PyStr("page"), PyStr("other")}
ThreadOps == {"wrapped", "store_result"}

\* The function the threads call through the wrapper
ThreadFunc == [name |-> "generate_content", ttl |-> 0]

Thread(op, theme, ret) ==
    [op |-> op, theme |-> theme, ret |-> ret,
     pc |-> IF op = "wrapped" THEN "check" ELSE "store",
     snapshot |-> <<>>, value |-> NoneVal]

ThreadKey(t) == wrapper_key(ThreadFunc, threads[t].theme)

ThreadFrame ==
    UNCHANGED <<config, healer, buildVars, calls, _guardian, audits, _predictor, predicted,
                models, trained, generated, breakerVars, cacheVars>>

\* A thread starts a call: the wrapped function, or store_result directly
Spawn(op, theme, ret) ==
    /\ manager # NoneVal
    /\ Len(threads) < MaxThreads
    /\ threads' = Append(threads, Thread(op, theme, ret))
    /\ UNCHANGED <<manager, idem_calls, disk>>
    /\ ThreadFrame

\* wrapper: manager.get_result(key), under the lock; an expired entry is
\* deleted and the cache saved while the lock is held
ThreadCheck(t) ==
    /\ threads[t].pc = "check"
    /\ LET cached == get_result(manager, clock, ThreadKey(t))
       IN  /\ manager' = cached.self
           /\ disk' = IF cached.self # manager THEN cached.self._cache ELSE disk
           /\ threads' = [threads EXCEPT ![t].value = cached.value,
                              ![t].pc = IF truthy(cached.value) THEN "done" ELSE "run"]
    /\ UNCHANGED idem_calls
    /\ ThreadFrame

\* wrapper: result = func(*args, **kwargs), outside any lock
ThreadRun(t) ==
    /\ threads[t].pc = "run"
    /\ idem_calls' = Append(idem_calls, [thread |-> t, key |-> ThreadKey(t),
                                         ret |-> threads[t].ret])
    /\ threads' = [threads EXCEPT ![t].value = threads[t].ret, ![t].pc = "store"]
    /\ UNCHANGED <<manager, disk>>
    /\ ThreadFrame

\* store_result: self._cache[key] = idempotent_result, under the lock
ThreadStore(t) ==
    /\ threads[t].pc = "store"
    /\ manager' = store_result(manager, clock, ThreadKey(t), threads[t].ret, ThreadFunc.ttl)
    /\ threads' = [threads EXCEPT ![t].pc = "snapshot"]
    /\ UNCHANGED <<idem_calls, disk>>
    /\ ThreadFrame

\* _save_to_disk: data = {k: v.to_dict() for k, v in self._cache.items()},
\* outside the lock
ThreadSnapshot(t) ==
    /\ threads[t].pc = "snapshot"
    /\ threads' = [threads EXCEPT ![t].snapshot = manager._cache, ![t].pc = "write"]
    /\ UNCHANGED <<manager, idem_calls, disk>>
    /\ ThreadFrame

\* _save_to_disk: json.dump(data, f), outside the lock
ThreadWrite(t) ==
    /\ threads[t].pc = "write"
    /\ disk' = threads[t].snapshot
    /\ threads' = [threads EXCEPT ![t].pc = "done"]
    /\ UNCHANGED <<manager, idem_calls>>
    /\ ThreadFrame

NewThreadedManager ==
    /\ manager = NoneVal
    /\ manager' = IdempotencyKeyManager(ModelDefaultTtl)
    /\ UNCHANGED <<idem_calls, threads, disk>>
    /\ ThreadFrame

ThreadNext ==
    \/ NewThreadedManager
    \/ \E op \in ThreadOps, theme \in Themes, ret \in ThreadRets : Spawn(op, theme, ret)
    \/ \E t \in DOMAIN threads :
           \/ ThreadCheck(t)
           \/ ThreadRun(t)
           \/ ThreadStore(t)
           \/ ThreadSnapshot(t)
           \/ ThreadWrite(t)

ThreadSpec == IdemInit /\ [][ThreadNext]_vars

(***************************************************************************)
(* The multi-tier cache and the LLM clients                                *)
(*  - time.time() is the clock, in whole seconds; a call of                *)
(*    generate_content is taken at one instant.                            *)
(*  - a prompt is a string of characters, a cache key is what hash_prompt  *)
(*    digests, a tier is a dict from keys to entries.                      *)
(*  - the filesystem tier outlives the client's context; the memory tier   *)
(*    is built anew by each __aenter__.                                    *)
(*  - the Redis tier is not modelled: AsyncLLMClient switches it off.      *)
(***************************************************************************)
MaxLlmRetries == 2

\* MemoryCache.set(key, value, ttl=3600)
MemorySetDefaultTtl == 3600

\* CacheManager(memory_size=100) in __aenter__
ClientMemorySize == 100

\* CacheEntry(key, value, created_at, ttl)
CacheEntry(value, created_at, ttl) ==
    [value |-> value, created_at |-> created_at, ttl |-> ttl]

\* Variant of CacheEntry.is_expired: an entry expires as its ttl is reached
CacheEntry_is_expired_at_ttl(entry, now) ==
    IF entry.ttl <= 0 THEN FALSE
    ELSE now - entry.created_at >= entry.ttl

\* CacheEntry.is_expired()
CacheEntry_is_expired(entry, now) ==
    IF entry.ttl <= 0 THEN FALSE
    ELSE now - entry.created_at > entry.ttl

\* list.remove(x) where x occurs at most once
Remove(seq, x) == SelectSeq(seq, LAMBDA y : y # x)

MemoryCache(max_size) ==
    [max_size |-> max_size, _cache |-> EmptyDict, _access_order |-> <<>>]

\* MemoryCache.get(key)
MemoryCache_get(self, now, key) ==
    IF key \notin DOMAIN self._cache
    THEN [self |-> self, value |-> NoneVal]
    ELSE IF CacheEntry_is_expired(self._cache[key], now)
    THEN [self |-> [self EXCEPT !._cache = DelItem(@, key),
                                !._access_order = Remove(@, key)],
          value |-> NoneVal]
    ELSE [self |-> [self EXCEPT !._access_order = Append(Remove(@, key), key)],
          value |-> self._cache[key].value]

\* MemoryCache.set(key, value, ttl)
MemoryCache_set(self, now, key, value, ttl) ==
    LET evicting == /\ Cardinality(DOMAIN self._cache) >= self.max_size
                    /\ key \notin DOMAIN self._cache
                    /\ self._access_order # <<>>
        room == IF evicting
                THEN [self EXCEPT !._cache = DelItem(@, Head(self._access_order)),
                                  !._access_order = Tail(@)]
                ELSE self
    IN  [room EXCEPT !._cache = SetItem(@, key, CacheEntry(value, now, ttl)),
                     !._access_order = Append(Remove(@, key), key)]

\* What the cache directory does in a call: it works, a write fails
\* (write_text raises), or the directory is gone (mkdir in _get_cache_path
\* raises)
IoStates == {"ok", "write_error", "no_directory"}

\* FilesystemCache.get(key) over the files fs of the cache directory
FilesystemCache_get(fs, now, key, io) ==
    IF io = "no_directory"
    THEN [fs |-> fs, value |-> NoneVal, raised |-> "FileNotFoundError"]
    ELSE IF key \notin DOMAIN fs
    THEN [fs |-> fs, value |-> NoneVal, raised |-> "none"]
    ELSE IF CacheEntry_is_expired(fs[key], now)
    THEN [fs |-> DelItem(fs, key), value |-> NoneVal, raised |-> "none"]
    ELSE [fs |-> fs, value |-> fs[key].value, raised |-> "none"]

\* FilesystemCache.set(key, value, ttl): set_async of the manager gathers it
\* with return_exceptions=True, so no failure leaves it
FilesystemCache_set(fs, now, key, value, ttl, io) ==
    IF io = "ok" THEN SetItem(fs, key, CacheEntry(value, now, ttl)) ELSE fs

\* CacheManager(enable_redis=False, memory_size=...) over a cache directory
CacheManager(memory_size, cache_dir) ==
    [memory |-> MemoryCache(memory_size), filesystem |-> cache_dir]

\* CacheManager.hash_prompt(prompt, system_prompt, model)
hash_prompt(prompt, system_prompt, model) ==
    [sha256 |-> model \o <<":">> \o system_prompt \o <<":">> \o prompt]

\* CacheManager.get_async(key)
get_async(self, now, key, io) ==
    LET m == MemoryCache_get(self.memory, now, key)
        f == FilesystemCache_get(self.filesystem, now, key, io)
    IN  IF m.value # NoneVal
        THEN [self |-> [self EXCEPT !.memory = m.self],
              value |-> m.value, raised |-> "none"]
        ELSE IF f.raised # "none"
        THEN [self |-> [self EXCEPT !.memory = m.self],
              value |-> NoneVal, raised |-> f.raised]
        ELSE IF f.value # NoneVal
        THEN [self |-> [self EXCEPT
                           !.memory = MemoryCache_set(m.self, now, key, f.value,
                                                      MemorySetDefaultTtl),
                           !.filesystem = f.fs],
              value |-> f.value, raised |-> "none"]
        ELSE [self |-> [self EXCEPT !.memory = m.self, !.filesystem = f.fs],
              value |-> NoneVal, raised |-> "none"]

\* CacheManager.set_async(key, value, ttl)
set_async(self, now, key, value, ttl, io) ==
    [self EXCEPT !.memory = MemoryCache_set(@, now, key, value, ttl),
                 !.filesystem = FilesystemCache_set(@, now, key, value, ttl, io)]

ModelName == <<"m">>

\* LLMClient(max_retries=...)
LLMClient(max_retries_arg) ==
    [class |-> "LLMClient", model_name |-> ModelName, max_retries |-> max_retries_arg,
     enable_cache |-> FALSE, cache_ttl |-> 0, cache |-> NoneVal]

\* AsyncLLMClient(max_retries=..., enable_cache=..., cache_ttl=...) once
\* __aenter__ has run
AsyncLLMClient(max_retries_arg, enable_cache, cache_ttl, cache_dir) ==
    [class |-> "AsyncLLMClient", model_name |-> ModelName,
     max_retries |-> max_retries_arg,
     enable_cache |-> enable_cache, cache_ttl |-> cache_ttl,
     cache |-> IF enable_cache THEN CacheManager(ClientMemorySize, cache_dir)
               ELSE NoneVal]

\* The JSON objects the backend may answer with
JsonBodies ==
    {[response |-> PyStr("A")], [response |-> PyStr("")],
     [error |-> PyStr("model not found")]}

\* What client.post(...), raise_for_status() and response.json() do in one
\* attempt
PostOutcomes ==
    [kind : {"json"}, body : JsonBodies] \cup
    {[kind |-> "HTTPStatusError"], [kind |-> "TimeoutException"],
     [kind |-> "ConnectError"], [kind |-> "JSONDecodeError"]}

Posted(raised, value, requests) ==
    [raised |-> raised, value |-> value, requests |-> requests]

\* for attempt in range(1, self.max_retries + 1): ... raise "Max retries
\* exceeded"; backend[attempt] is what the attempt meets
RECURSIVE post_attempts(_, _, _)
post_attempts(max_retries_arg, backend, att) ==
    IF att > max_retries_arg
    THEN Posted("LLMClientError", NoneVal, att - 1)
    ELSE IF backend[att].kind = "json"
    THEN IF truthy(Get(backend[att].body, "response", PyStr("")))
         THEN Posted("none", backend[att].body.response, att)
         ELSE Posted("LLMClientError", NoneVal, att)
    ELSE IF backend[att].kind \in {"HTTPStatusError", "TimeoutException"}
    THEN IF att = max_retries_arg
         THEN Posted("LLMClientError", NoneVal, att)
         ELSE post_attempts(max_retries_arg, backend, att + 1)
    ELSE Posted("LLMClientError", NoneVal, att)

Generated(self, posted, from_cache) ==
    [self |-> self, raised |-> posted.raised, value |-> posted.value,
     requests |-> posted.requests, from_cache |-> from_cache]

\* LLMClient.generate_content(prompt, system_prompt)
LLMClient_generate_content(self, backend) ==
    Generated(self, post_attempts(self.max_retries, backend, 1), FALSE)

\* system_prompt or ""
OrEmpty(system_prompt) == IF system_prompt = NoneVal THEN <<>> ELSE system_prompt.str

\* AsyncLLMClient.generate_content(prompt, system_prompt, use_cache=...)
AsyncLLMClient_generate_content(self, now, prompt, system_prompt, use_cache, backend, io) ==
    LET caching == self.enable_cache /\ use_cache /\ self.cache # NoneVal
        cache_key == hash_prompt(prompt.str, OrEmpty(system_prompt), self.model_name)
        looked == get_async(self.cache, now, cache_key, io)
        posted == post_attempts(self.max_retries, backend, 1)
    IN  IF ~caching
        THEN Generated(self, posted, FALSE)
        ELSE IF looked.raised # "none"
        THEN Generated([self EXCEPT !.cache = looked.self],
                       Posted(looked.raised, NoneVal, 0), FALSE)
        ELSE IF truthy(looked.value)
        THEN Generated([self EXCEPT !.cache = looked.self],
                       Posted("none", looked.value, 0), TRUE)
        ELSE IF posted.raised = "none"
        THEN Generated([self EXCEPT !.cache =
                            set_async(looked.self, now, cache_key, posted.value,
                                      self.cache_ttl, io)],
                       posted, FALSE)
        ELSE Generated([self EXCEPT !.cache = looked.self], posted, FALSE)

Prompts == {PyStr(<<"p">>)}
SystemPrompts == {NoneVal, PyStr(<<"s">>)}
ModelCacheTtl == 1

\* The key a call is cached under
KeyOf(self, prompt, system_prompt) ==
    hash_prompt(prompt.str, OrEmpty(system_prompt), self.model_name)

\* What the backend last answered under each key in a call that used the
\* cache, when, and the ttl the answer was stored with
Answered == IF llm_calls = <<>> THEN EmptyDict ELSE llm_calls[1].answered

\* The entry a tier holds under a key
Held(tier, key) == IF key \in DOMAIN tier THEN tier[key] ELSE NoneVal

LlmFrame ==
    UNCHANGED <<config, healer, buildVars, calls, _guardian, audits, _predictor, predicted,
                models, trained, generated, breaker, breaker_calls, idemVars>>

LlmInit ==
    /\ config = [max_retries |-> DefaultMaxRetries,
                 truncate_length |-> DefaultTruncateLength,
                 predictive_enabled |-> TRUE]
    /\ healer = SmartHealer(DefaultTruncateLength)
    /\ _guardian = NoneVal
    /\ _predictor = NoneVal
    /\ Idle

\* with LLMClient(...) as client
NewLLMClient(max_retries_arg) ==
    /\ cache = NoneVal
    /\ cache' = LLMClient(max_retries_arg)
    /\ UNCHANGED <<llm_calls, clock>>
    /\ LlmFrame

\* async with AsyncLLMClient(...) as client, on an empty cache directory
NewAsyncLLMClient(max_retries_arg, enable_cache, cache_ttl) ==
    /\ cache = NoneVal
    /\ cache' = AsyncLLMClient(max_retries_arg, enable_cache, cache_ttl, EmptyDict)
    /\ UNCHANGED <<llm_calls, clock>>
    /\ LlmFrame

\* The context is left and a client with the same arguments is entered in
\* the same working directory
Reenter ==
    /\ cache # NoneVal
    /\ cache.class = "AsyncLLMClient"
    /\ cache.enable_cache
    /\ cache' = AsyncLLMClient(cache.max_retries, cache.enable_cache, cache.cache_ttl,
                               cache.cache.filesystem)
    /\ UNCHANGED <<llm_calls, clock>>
    /\ LlmFrame

\* client.generate_content(prompt, system_prompt, use_cache=use_cache); the
\* log keeps the last call
GenerateContent(prompt, system_prompt, use_cache, backend, io) ==
    /\ cache # NoneVal
    /\ LET done == IF cache.class = "LLMClient"
                   THEN LLMClient_generate_content(cache, backend)
                   ELSE AsyncLLMClient_generate_content(cache, clock, prompt, system_prompt,
                                                        use_cache, backend, io)
           stored == /\ cache.enable_cache /\ use_cache
                     /\ done.raised = "none" /\ ~done.from_cache
       IN  /\ cache' = done.self
           /\ llm_calls' =
                <<[prompt |-> prompt, system_prompt |-> system_prompt,
                   use_cache |-> use_cache, now |-> clock,
                   in_memory |-> IF cache.cache = NoneVal THEN NoneVal
                                 ELSE Held(cache.cache.memory._cache,
                                           KeyOf(cache, prompt, system_prompt)),
                   in_files |-> IF cache.cache = NoneVal THEN NoneVal
                                ELSE Held(cache.cache.filesystem,
                                          KeyOf(cache, prompt, system_prompt)),
                   earlier |-> Held(Answered, KeyOf(cache, prompt, system_prompt)),
                   raised |-> done.raised, value |-> done.value,
                   requests |-> done.requests, from_cache |-> done.from_cache,
                   answered |-> IF stored
                                THEN SetItem(Answered, KeyOf(cache, prompt, system_prompt),
                                             [value |-> done.value, at |-> clock,
                                              ttl |-> cache.cache_ttl])
                                ELSE Answered]>>
    /\ UNCHANGED clock
    /\ LlmFrame

\* A second passes
LlmTick ==
    /\ cache # NoneVal
    /\ clock < MaxClock
    /\ clock' = clock + 1
    /\ UNCHANGED <<cache, llm_calls>>
    /\ LlmFrame

\* The backend answers the first attempt with a text
Answering(self, text) ==
    [att \in 1..self.max_retries |-> [kind |-> "json", body |-> [response |-> text]]]

\* Clients with a cache, a backend that answers, a cache directory that may
\* fail to write
CacheNext ==
    \/ \E enable_cache \in BOOLEAN : NewAsyncLLMClient(1, enable_cache, ModelCacheTtl)
    \/ Reenter
    \/ \E prompt \in Prompts, system_prompt \in SystemPrompts, use_cache \in BOOLEAN,
          text \in {PyStr("A"), PyStr("B")}, io \in {"ok", "write_error"} :
           GenerateContent(prompt, system_prompt, use_cache, Answering(cache, text), io)
    \/ LlmTick

CacheSpec == LlmInit /\ [][CacheNext]_vars

\* Clients of both classes, every backend behaviour over the attempts; the
\* clock stands
RetryNext ==
    \/ \E max_retries_arg \in 0..MaxLlmRetries : NewLLMClient(max_retries_arg)
    \/ \E max_retries_arg \in 0..MaxLlmRetries, enable_cache \in BOOLEAN :
           NewAsyncLLMClient(max_retries_arg, enable_cache, ModelCacheTtl)
    \/ Reenter
    \/ /\ cache # NoneVal
       /\ \E use_cache \in BOOLEAN, backend \in [1..cache.max_retries -> PostOutcomes],
             io \in IoStates :
              GenerateContent(PyStr(<<"p">>), NoneVal, use_cache, backend, io)

RetrySpec == LlmInit /\ [][RetryNext]_vars

(***************************************************************************)
(* Counting the collaborator calls of a build                              *)
(***************************************************************************)
CountOps(ops) == Cardinality({i \in DOMAIN log : log[i].op \in ops})
RenderCalls == CountOps({"render", "render_raise"})
AuditCalls == CountOps({"audit", "audit_raise"})
HealCalls == CountOps({"heal"})

AllRejected == \A i \in DOMAIN reports : ~reports[i].approved

C3_RenderErrorIsFatal ==
    \A i \in DOMAIN log :
        log[i].op = "render_raise" =>
            /\ i = Len(log)
            /\ pc = "done"
            /\ result.status = FAILED
            /\ result.attempts = log[i].attempt
            /\ result.errors = <<ErrorMsg("Build error: ", log[i].detail)>>

C3_Witness ==
    /\ pc = "done"
    /\ log # <<>>
    /\ log[Len(log)].op = "render_raise"
    /\ log[Len(log)].attempt = 2
    /\ result.status = FAILED

(***************************************************************************)
(* C4 as stated. Without the guardian a finished build has made exactly    *)
(* one render call, no audit call and no heal call, and returned SUCCESS   *)
(* (stated for content that passed validation, the case most favourable    *)
(* to the claim).                                                          *)
(***************************************************************************)
C4_AlwaysSuccess ==
    (pc = "done" /\ ~enable_guardian /\ log[1].op = "validate") =>
        /\ RenderCalls = 1
        /\ AuditCalls = 0
        /\ HealCalls = 0
        /\ result.status = SUCCESS

(***************************************************************************)
(* C4 amended. Without the guardian a build makes no audit call, no heal   *)
(* call and at most one render call - exactly one once the content has     *)
(* passed validation; it returns SUCCESS exactly when that render          *)
(* returned, and FAILED when validation or the render raised.              *)
(***************************************************************************)
C4_FastPath ==
    (pc = "done" /\ ~enable_guardian) =>
        /\ AuditCalls = 0
        /\ HealCalls = 0
        /\ RenderCalls <= 1
        /\ (log[1].op = "validate") => RenderCalls = 1
        /\ (result.status = SUCCESS) <=> (CountOps({"render"}) = 1)
        /\ (result.status = FAILED) <=> (CountOps({"validate_raise", "render_raise"}) = 1)
        /\ result.status \in {SUCCESS, FAILED}

C4_Witness ==
    /\ pc = "done"
    /\ ~enable_guardian
    /\ result.status = SUCCESS
    /\ RenderCalls = 1
    /\ config.max_retries = 3

(***************************************************************************)
(* Reading fixes_applied                                                   *)
(***************************************************************************)
CssTiers == {CSS_BREAK_WORD, FONT_SHRINK, CSS_TRUNCATE}

\* The strategies of the fixes applied inside the loop, in order
RECURSIVE LoopStrategies(_)
LoopStrategies(fixes) ==
    IF fixes = <<>> THEN <<>>
    ELSE IF Head(fixes)[1] = "Pre-emptive" THEN LoopStrategies(Tail(fixes))
    ELSE <<Head(fixes)[1]>> \o LoopStrategies(Tail(fixes))

(***************************************************************************)
(* C5. current_content differs from the content passed in only after a     *)
(* CONTENT_CUT fix, and every CONTENT_CUT fix of a build comes after a     *)
(* CSS_BREAK_WORD, a FONT_SHRINK and a CSS_TRUNCATE fix applied by the     *)
(* loop of the same build.                                                 *)
(***************************************************************************)
C5_CssTiersBeforeContentCut ==
    LET strategies == LoopStrategies(fixes_applied) IN
    /\ (current_content # NoneVal /\ current_content # content) =>
            \E i \in DOMAIN strategies : strategies[i] = CONTENT_CUT
    /\ \A i \in DOMAIN applied :
            applied[i].content_modified => applied[i].strategy = CONTENT_CUT
    /\ \A i \in DOMAIN strategies :
            strategies[i] = CONTENT_CUT =>
                \A tier \in CssTiers : \E j \in 1..(i - 1) : strategies[j] = tier

C5_Witness ==
    /\ pc = "build"
    /\ current_content # content
    /\ LoopStrategies(fixes_applied) = <<CSS_BREAK_WORD, FONT_SHRINK, CSS_TRUNCATE, CONTENT_CUT>>

(***************************************************************************)
(* C6 as stated. With max_retries = 4 and an auditor that reports DOM      *)
(* overflow on every attempt, the finished build has applied the four      *)
(* tiers in order and the page it last rendered and audited holds the      *)
(* truncated title ending in "...".                                        *)
(***************************************************************************)
DomOverflowEveryTime ==
    \A i \in DOMAIN reports : reports[i].reason = "DOM overflow detected"

CutTitle(cont, max_len) == SubSeq(Title(cont), 1, max_len) \o Ellipsis

C6_FourTiersInFourAttempts ==
    (/\ pc = "done"
     /\ enable_guardian
     /\ config.max_retries = 4
     /\ content = LongContent
     /\ Len(reports) = 4
     /\ DomOverflowEveryTime) =>
        /\ LoopStrategies(fixes_applied) =
                <<CSS_BREAK_WORD, FONT_SHRINK, CSS_TRUNCATE, CONTENT_CUT>>
        /\ EndsWith(Title(files[result.output_path].content), Ellipsis)

(***************************************************************************)
(* C6 amended. With max_retries = 4 and every audit rejecting, tiers 1, 2  *)
(* and 3 are applied in that order and nothing else: the fourth audit      *)
(* ends the build REJECTED with the content unaltered.  CONTENT_CUT is     *)
(* applied after a fourth rejection only when max_retries >= 5; the fifth  *)
(* render then writes the content whose over-long title is cut to max_len  *)
(* characters plus "...", and with max_retries = 5 the build returns       *)
(* SUCCESS or REJECTED according to the audit of that page.                *)
(***************************************************************************)
C6_TierFourNeedsFifthAttempt ==
    /\ (pc # "idle" /\ max_retries <= 4) =>
            /\ \A i \in DOMAIN fixes_applied : fixes_applied[i][1] # CONTENT_CUT
            /\ current_content \in {NoneVal, content}
    /\ (/\ pc = "done"
        /\ enable_guardian
        /\ config.max_retries = 4
        /\ Len(reports) = 4
        /\ AllRejected) =>
            /\ LoopStrategies(fixes_applied) = <<CSS_BREAK_WORD, FONT_SHRINK, CSS_TRUNCATE>>
            /\ current_content = content
            /\ result.status = REJECTED
            /\ files[BrokenFilename].content = content
    /\ (/\ pc \in {"built", "heal", "done"}
        /\ attempt = 5
        /\ log[Len(log)].op # "render_raise") =>
            /\ LoopStrategies(fixes_applied)[4] = CONTENT_CUT
            /\ SubSeq(LoopStrategies(fixes_applied), 1, 3) =
                    <<CSS_BREAK_WORD, FONT_SHRINK, CSS_TRUNCATE>>
            /\ LET page == IF pc = "done" THEN files[result.output_path]
                           ELSE files[OutputFilename]
                   max_len == CutMaxLen(healer, 4)
               IN /\ page.attempt = 5
                  /\ page.content = _truncate_recursive(content, max_len)
                  /\ Len(Title(content)) > max_len =>
                        /\ Title(page.content) = CutTitle(content, max_len)
                        /\ EndsWith(Title(page.content), Ellipsis)
                        /\ Len(Title(page.content)) = max_len + 3
    /\ (/\ pc = "done"
        /\ config.max_retries = 5
        /\ Len(reports) = 5) =>
            /\ reports[5].approved => result.status = SUCCESS
            /\ ~reports[5].approved => result.status = REJECTED

C6_Witness ==
    /\ pc = "done"
    /\ config.max_retries = 5
    /\ content = LongContent
    /\ Len(reports) = 5
    /\ reports[5].approved
    /\ LoopStrategies(fixes_applied) =
            <<CSS_BREAK_WORD, FONT_SHRINK, CSS_TRUNCATE, CONTENT_CUT>>
    /\ EndsWith(Title(files[OutputFilename].content), Ellipsis)

(***************************************************************************)
(* C7. Any two heal_layout calls on a healer with the same attempt and     *)
(* the same content return the same HealingResult - strategy, style        *)
(* overrides, content_modified, modified content and description -         *)
(* whatever guardian report each was given and whatever was called before. *)
(***************************************************************************)
C7_HealLayoutDeterministic ==
    \A i, j \in DOMAIN calls :
        (calls[i].attempt = calls[j].attempt /\ calls[i].content = calls[j].content) =>
            calls[i].result = calls[j].result

C7_Witness ==
    /\ Len(calls) = 2
    /\ calls[1].attempt = calls[2].attempt
    /\ calls[1].content = calls[2].content
    /\ calls[1].report # calls[2].report
    /\ calls[1].report.fix_suggestion = "truncate"
    /\ calls[1].attempt = 2

(***************************************************************************)
(* C8 as stated. The strategy of a heal_layout call is the row of the      *)
(* tier table at the attempt number clamped into 1..4: attempts below 1    *)
(* get the first row, attempts above 4 the last.                           *)
(***************************************************************************)
TierTable == <<CSS_BREAK_WORD, FONT_SHRINK, CSS_TRUNCATE, CONTENT_CUT>>
Clamp(n, lo, hi) == IF n < lo THEN lo ELSE IF n > hi THEN hi ELSE n

C9_OneEffectiveChange ==
    \A i \in DOMAIN calls :
        LET r == calls[i].result IN
        /\ r.content_modified <=> (r.strategy = CONTENT_CUT)
        /\ r.content_modified =>
                /\ DOMAIN r.style_overrides = {}
                /\ r.modified_content # NoneVal
        /\ ~r.content_modified =>
                /\ DOMAIN r.style_overrides # {}
                /\ r.modified_content = NoneVal

C9_Witness ==
    /\ Len(calls) = 2
    /\ calls[1].result.strategy = CSS_TRUNCATE
    /\ calls[2].result.strategy = CONTENT_CUT
    /\ calls[2].result.modified_content # calls[2].content

(***************************************************************************)
(* C10. current_style_overrides is the last-write-wins combination of the  *)
(* style overrides applied so far in the build: its keys are the keys set  *)
(* by any of them, and each key holds exactly the value given by the last  *)
(* applied result that set it.                                             *)
(***************************************************************************)
\* The style overrides applied so far (pre-seed included), in order
RECURSIVE StyleWrites(_)
StyleWrites(results) ==
    IF results = <<>> THEN <<>>
    ELSE IF Head(results).content_modified THEN StyleWrites(Tail(results))
    ELSE <<Head(results).style_overrides>> \o StyleWrites(Tail(results))

LastWriter(writes, key) ==
    CHOOSE i \in DOMAIN writes :
        /\ key \in DOMAIN writes[i]
        /\ \A j \in DOMAIN writes : key \in DOMAIN writes[j] => j <= i

C10_LastWriteWins ==
    LET writes == StyleWrites(applied) IN
    /\ DOMAIN current_style_overrides = UNION {DOMAIN writes[i] : i \in DOMAIN writes}
    /\ \A key \in DOMAIN current_style_overrides :
            current_style_overrides[key] = writes[LastWriter(writes, key)][key]

C10_Witness ==
    /\ Len(StyleWrites(applied)) = 2
    /\ applied[1].strategy = CSS_BREAK_WORD
    /\ applied[2].strategy = FONT_SHRINK
    /\ current_style_overrides["heading_primary"] = "text-3xl break-all"
    /\ current_style_overrides["tagline"] = nuclear_css

(***************************************************************************)
(* Pre-cognition: the confidence gate and the pre-seed                     *)
(***************************************************************************)
Consulted == prediction # NoneVal
LoopStart == pc = "loop" /\ attempt = 0
TierNames == {"CSS_BREAK_WORD", "FONT_SHRINK", "CSS_TRUNCATE", "CONTENT_CUT"}
TierOf(strategy) ==
    CASE strategy = CSS_BREAK_WORD -> 1
      [] strategy = FONT_SHRINK -> 2
      [] strategy = CSS_TRUNCATE -> 3
      [] strategy = CONTENT_CUT -> 4

\* The predictor was unavailable or not confident enough
BelowGate ==
    /\ Consulted
    /\ ~prediction.prediction_available \/ prediction.confidence <= ConfidenceThreshold

\* The predictor was available and confident
AboveGate ==
    /\ Consulted
    /\ prediction.prediction_available
    /\ prediction.confidence > ConfidenceThreshold

\* C11: when the predictor is unavailable or its confidence is at most 0.6,
\* the loop starts with empty overrides, no fix recorded and the content
\* untouched, and the first remediation the build requests and applies is
\* tier 1 (attempt 1, CSS_BREAK_WORD).
C11_BelowGateStateUntouched ==
    BelowGate =>
        /\ LoopStart =>
              /\ current_style_overrides = EmptyDict
              /\ fixes_applied = <<>>
              /\ current_content = content
              /\ calls = <<>>
        /\ calls # <<>> =>
              /\ calls[1].attempt = 1
              /\ calls[1].result.strategy = CSS_BREAK_WORD
        /\ applied # <<>> => applied[1] = calls[1].result
        /\ fixes_applied # <<>> => fixes_applied[1][1] = CSS_BREAK_WORD

C11_Witness ==
    /\ BelowGate
    /\ prediction.prediction_available
    /\ prediction.confidence = ConfidenceThreshold
    /\ prediction.strategy_name = "FONT_SHRINK"
    /\ pc = "loop" /\ attempt = 1
    /\ Len(calls) = 1
    /\ fixes_applied[1][1] = CSS_BREAK_WORD

\* C12: when the predictor is available with confidence above 0.6 and
\* recommends a tier k in 1..4, the loop starts with the overrides equal to the
\* escalator's output for tier k and exactly one pre-emptive entry for that
\* tier in fixes_applied.
C12_PreSeedRecordsFix ==
    (LoopStart /\ AboveGate /\ prediction.strategy_name \in TierNames) =>
        /\ current_style_overrides =
               heal_layout(healer, mock_report(prediction.strategy_name), content,
                           strategy_to_attempt(prediction.strategy_name)).style_overrides
        /\ Len(fixes_applied) = 1
        /\ fixes_applied[1][1] = "Pre-emptive"
        /\ fixes_applied[1][2] = prediction.strategy_name

\* A pre-seed took place: the pre-emptive fix is the first fix recorded
PreSeeded ==
    /\ AboveGate
    /\ fixes_applied # <<>>
    /\ fixes_applied[1][1] = "Pre-emptive"

\* C13: after a pre-seed for tier k, the first remediation requested from the
\* escalator after a rejection is for a tier above k.
C13_PreSeedSkipsLowerTiers ==
    (PreSeeded /\ prediction.strategy_name \in TierNames /\ Len(calls) >= 2) =>
        /\ calls[2].attempt > strategy_to_attempt(prediction.strategy_name)
        /\ TierOf(calls[2].result.strategy) > TierOf(calls[1].result.strategy)

\* C14: a recommendation of 99 (UNRESOLVED_FAIL), at any confidence, is handled
\* like no recommendation: nothing is pre-seeded, nothing is recorded, and no
\* pre-emptive remediation is requested.
C14_UnresolvedIsNoRecommendation ==
    (LoopStart /\ Consulted /\ prediction.strategy_name = "UNRESOLVED_FAIL") =>
        /\ current_style_overrides = EmptyDict
        /\ fixes_applied = <<>>
        /\ calls = <<>>

(***************************************************************************)
(* The predictor degrades instead of raising                               *)
(***************************************************************************)
NoArtifact(model_dir) == model_dir.dir \in {"missing", "empty"}
IncompatibleArtifact(model_dir) ==
    /\ model_dir.dir = "present"
    /\ model_dir.pkl = "classifier"
    /\ model_dir.n_features_in # FeatureCount

\* C15: neither the constructor nor predict_best_strategy raises, and when no
\* model artifact is present, when the artifact does not fit the current
\* feature schema, or when inference fails, the recommendation returned has
\* prediction_available = FALSE.
C15_PredictorNeverRaises ==
    \A i \in DOMAIN predicted :
        /\ ~predicted[i].raised
        /\ (/\ predicted[i].op = "predict"
            /\ \/ NoArtifact(predicted[1].model_dir)
               \/ IncompatibleArtifact(predicted[1].model_dir)
               \/ predicted[i].inference.kind = "raise")
           => /\ predicted[i].value # NoneVal
              /\ ~predicted[i].value.prediction_available

C15_Witness ==
    /\ Len(predicted) = 2
    /\ predicted[1].model_dir.dir = "present"
    /\ predicted[1].model_dir.pkl = "classifier"
    /\ predicted[1].model_dir.n_features_in = FeatureCount
    /\ predicted[1].model_dir.sidecar = "valid"
    /\ _predictor.is_loaded
    /\ predicted[2].inference.kind = "raise"
    /\ ~predicted[2].raised
    /\ ~predicted[2].value.prediction_available

(***************************************************************************)
(* The two phases of the audit                                             *)
(***************************************************************************)
Mentions(reason, word) == \E i \in DOMAIN reason : reason[i] = word

\* Phase 2 reached the vision model: it is enabled and a screenshot was taken
VisionAsked(a) == _guardian.enable_vision_ai /\ a.shot = "image"

\* The answer is a verdict as the prompt asks for it: a status of pass or fail
\* with the list of issues
Verdicts ==
    {v \in JsonObjects : /\ {"status", "issues"} \subseteq DOMAIN v
                         /\ v.status \in {"pass", "fail"}}

\* The semantic check raised, timed out, or answered with something that is
\* not a verdict
SemanticCheckFailed(a) ==
    /\ VisionAsked(a)
    /\ \/ a.response.kind # "json"
       \/ a.response.value \notin Verdicts

\* C16: when the semantic check raises, times out or returns a malformed
\* response, audit_layout does not raise and does not reject: it returns
\* approved = TRUE with a non-empty reason that mentions the check being
\* unavailable.
C16_SemanticFailureFailsOpen ==
    \A i \in DOMAIN audits :
        SemanticCheckFailed(audits[i]) =>
            /\ ~audits[i].outcome.raised
            /\ audits[i].outcome.report.approved
            /\ audits[i].outcome.report.reason # <<>>
            /\ Mentions(audits[i].outcome.report.reason, "unavailable")

\* Phase 2 ran and produced a verdict (the model's, or the auto-approval that
\* stands in for it)
Phase2Verdict(a) ==
    /\ VisionAsked(a)
    /\ ~SemanticCheckFailed(a) \/ a.response.kind \in {"raise", "none", "text", "json_list"}

\* C17: whenever Phase 2 ran, its verdict decides the audit, whatever Phase 1
\* found: fail rejects, pass approves.
C17_Phase2Decides ==
    \A i \in DOMAIN audits :
        Phase2Verdict(audits[i]) =>
            /\ ~audits[i].outcome.raised
            /\ audits[i].outcome.report.approved =
                 (_analyze_with_vision(audits[i].response).status = "pass")
            /\ audits[i].outcome.report.status =
                 _analyze_with_vision(audits[i].response).status

C17_Witness ==
    /\ audits # <<>>
    /\ VisionAsked(audits[1])
    /\ audits[1].dom = "overflow"
    /\ audits[1].response =
           [kind |-> "json",
            value |-> [status |-> "pass", issues |-> <<>>, fix_suggestion |-> "none"]]
    /\ audits[1].outcome.report.approved

LastOp == log[Len(log)].op
TelemetryCalls == CountOps({"telemetry"})

\* C19: every terminal branch of a build (SUCCESS, REJECTED and FAILED) has
\* emitted a telemetry event for its final attempt when the result is returned
\* (stated for builds whose content is valid and that may attempt a render).
C19_EveryTerminalBranchEmits ==
    (pc = "done" /\ log[1].op = "validate" /\ max_retries >= 1) =>
        \E i \in DOMAIN log :
            /\ log[i].op = "telemetry"
            /\ log[i].attempt = result.attempts

\* C20: a telemetry write that fails is swallowed: no exception leaves the
\* build, the row is simply not appended, and the build goes on to the result
\* its verdict calls for (SUCCESS after an approval or an unaudited render,
\* healing after a rejection with attempts left, REJECTED with the page kept
\* after the last rejection).
C20_LoggingFailureIsSwallowed ==
    /\ pc # "raised"
    /\ Len(dataset) = TelemetryCalls - WriteFailures
    /\ (pc = "done" /\ LastOp = "telemetry") =>
           /\ result.status = SUCCESS
           /\ result.errors = <<>>
           /\ result.output_path = OutputFilename
           /\ enable_guardian =>
                 /\ reports[Len(reports)].approved
                 /\ result.guardian_report = reports[Len(reports)]
    /\ (pc = "done" /\ LastOp \in {"telemetry", "rename"} /\ reports # <<>>
           /\ ~reports[Len(reports)].approved) =>
           /\ LastOp = "rename"
           /\ result.status = REJECTED
           /\ result.guardian_report = reports[Len(reports)]
           /\ files[BrokenFilename] # NoFile
    /\ (pc # "done" /\ log # <<>> /\ LastOp = "telemetry") =>
           /\ pc = "heal"
           /\ result = NoneVal

C20_Witness ==
    /\ pc = "done"
    /\ WriteFailures = 1
    /\ Len(reports) = 2
    /\ log[Len(log)].op = "telemetry"
    /\ log[Len(log)].detail # ""
    /\ result.status = SUCCESS
    /\ Len(dataset) = 1

(***************************************************************************)
(* The resolved outcome id of a telemetry row                              *)
(***************************************************************************)
\* The tier of the last remediation the build applied, 0 when there is none
LastTierApplied ==
    IF applied = <<>> THEN 0 ELSE TierOf(applied[Len(applied)].strategy)

\* C21: the row logged for an approved build records how it was resolved: 0
\* when no remediation was applied and k when tier k was the last remediation
\* before the approval; the row of a rejected attempt records 99 (stated for
\* builds without a pre-seed, whose rows were written).
C21_ResolvedIdNamesTier ==
    /\ \A i \in DOMAIN dataset :
           dataset[i].is_valid = 0 => dataset[i].resolved_strategy_id = 99
    /\ (/\ pc = "done"
        /\ result.status = SUCCESS
        /\ enable_guardian
        /\ ~Consulted
        /\ WriteFailures = 0) =>
           dataset[Len(dataset)].resolved_strategy_id = LastTierApplied

(***************************************************************************)
(* The length of the strings CONTENT_CUT leaves                            *)
(***************************************************************************)
RECURSIVE CutWithin(_, _, _)
CutWithin(original, cut, limit) ==
    CASE original.kind = "dict" ->
            /\ cut.kind = "dict"
            /\ DOMAIN cut.items = DOMAIN original.items
            /\ \A k \in DOMAIN original.items :
                   CutWithin(original.items[k], cut.items[k], limit)
      [] original.kind = "list" ->
            /\ cut.kind = "list"
            /\ Len(cut.elems) = Len(original.elems)
            /\ \A i \in DOMAIN original.elems :
                   CutWithin(original.elems[i], cut.elems[i], limit)
      [] original.kind = "str" ->
            /\ cut.kind = "str"
            /\ Len(original.val) > limit =>
                   /\ Len(cut.val) <= limit + Len(Ellipsis)
                   /\ EndsWith(cut.val, Ellipsis)
      [] OTHER -> cut = original

\* C22: for any truncate_length and any attempt >= 4, heal_layout replaces
\* every string of the content, at any depth, that is longer than
\* truncate_length by a string of at most truncate_length + 3 characters that
\* ends with "...".
C22_CutRespectsTruncateLength ==
    \A i \in DOMAIN calls :
        calls[i].attempt >= 4 =>
            /\ calls[i].result.content_modified
            /\ CutWithin(calls[i].content, calls[i].result.modified_content,
                         calls[i].healer.truncate_length)

(***************************************************************************)
(* Cancellation between attempts                                           *)
(***************************************************************************)
Cancelled == log # <<>> /\ LastOp = "cancel"

\* C23: a build cancelled between attempts returns a result whose status is
\* neither FAILED nor REJECTED (nor SUCCESS), and every attempt made so far has
\* been logged to telemetry.
C23_CancelledIsDistinctTerminal ==
    Cancelled =>
        /\ pc = "done"
        /\ result # NoneVal
        /\ result.status \in BuildStatus \ {SUCCESS, FAILED, REJECTED}
        /\ TelemetryCalls = attempt

(***************************************************************************)
(* The trainer's quality gates                                             *)
(***************************************************************************)
\* The classifier's held-out scores are below a minimum
BelowMinimum(scores) ==
    \/ scores.f1_score < MIN_F1_SCORE * 10
    \/ scores.precision < MIN_PRECISION * 10
    \/ scores.recall < MIN_RECALL * 10

\* C24: the model directory never holds a model whose held-out F1, precision
\* or recall is below 0.6, 0.5, 0.5: a run that trains such a model ends with
\* an error and writes no file.
C24_GateRefusesWeakModels ==
    /\ \A j \in DOMAIN models : ~BelowMinimum(models[j].model.scores)
    /\ \A i \in DOMAIN trained :
           (trained[i].prep = "ok" /\ BelowMinimum(trained[i].scores)) =>
               /\ trained[i].raised
               /\ trained[i].written = 0

(***************************************************************************)
(* The fallback to the static document                                     *)
(***************************************************************************)
\* The generator fails: no attempt of the retry loop yields a valid document
GeneratorFails(g) ==
    /\ g.raw_exists
    /\ generate_content([max_retries |-> LlmMaxRetries], g.raw_exists, g.responses).raised

\* C25: when the content generator fails and the static document exists,
\* build_with_llm does not fail: it obtains the static document and the build
\* starts from it.
C25_GeneratorFailureFallsBack ==
    \A i \in DOMAIN generated :
        (/\ generated[i].op = "build_with_llm"
         /\ GeneratorFails(generated[i])
         /\ generated[i].fallback = "present") =>
            /\ ~generated[i].outcome.raised
            /\ content = StaticDocument
            /\ ~(pc = "done" /\ result.status = FAILED /\ result.attempts = 0)

\* generate_content_with_fallback by itself does fall back
DirectCallFallsBack ==
    \A i \in DOMAIN generated :
        (/\ generated[i].op = "generate"
         /\ GeneratorFails(generated[i])
         /\ generated[i].fallback = "present") =>
            /\ ~generated[i].outcome.raised
            /\ generated[i].outcome.content = StaticDocument

(***************************************************************************)
(* The circuit breaker                                                     *)
(***************************************************************************)
BreakerCalls == {i \in DOMAIN breaker_calls : breaker_calls[i].op = "call"}

\* The call's function raises the exception the breaker expects
Failing(c) ==
    /\ c.op = "call"
    /\ c.behaviour # "returns"
    /\ isinstance(c.behaviour, c.before.expected_exception)

OnlyFailures == \A i \in DOMAIN breaker_calls : Failing(breaker_calls[i])

\* C26: a breaker with failure_threshold T >= 1 that starts CLOSED is CLOSED
\* after fewer than T consecutive failing calls and OPEN right after the T-th.
C26_OpensAtThreshold ==
    (breaker # NoneVal /\ OnlyFailures) =>
        /\ Len(breaker_calls) < breaker.failure_threshold => breaker._state = CLOSED
        /\ Len(breaker_calls) = breaker.failure_threshold => breaker._state = OPEN

C26_Witness ==
    /\ breaker # NoneVal
    /\ OnlyFailures
    /\ breaker.failure_threshold >= 2
    /\ Len(breaker_calls) = breaker.failure_threshold
    /\ breaker_calls[Len(breaker_calls)].before._state = CLOSED
    /\ breaker._state = OPEN

\* Seconds since the last failure when the call is made
SinceFailure(c) == c.now - c.before._last_failure_time.at

OpenNotElapsed(c) ==
    /\ c.op = "call"
    /\ c.before._state = OPEN
    /\ SinceFailure(c) < c.before.recovery_timeout

OpenElapsed(c) ==
    /\ c.op = "call"
    /\ c.before._state = OPEN
    /\ SinceFailure(c) >= c.before.recovery_timeout

\* C27: a call made while the breaker is OPEN and the recovery timeout has not
\* elapsed raises CircuitOpenError without invoking the function, and the
\* breaker stays OPEN.
C27_OpenBlocksCalls ==
    \A i \in DOMAIN breaker_calls :
        OpenNotElapsed(breaker_calls[i]) =>
            /\ breaker_calls[i].raised = "CircuitOpenError"
            /\ ~breaker_calls[i].invoked
            /\ breaker_calls[i].after = OPEN

C27_Witness ==
    \E i \in DOMAIN breaker_calls :
        /\ OpenNotElapsed(breaker_calls[i])
        /\ breaker_calls[i].behaviour = "returns"
        /\ breaker_calls[i].raised = "CircuitOpenError"

\* C28: the first call on an OPEN breaker once the recovery timeout has
\* elapsed since the last failure invokes the function; the breaker is CLOSED
\* after it if the function returns and OPEN again if it raises the expected
\* exception.
C28_TrialDecides ==
    \A i \in DOMAIN breaker_calls :
        OpenElapsed(breaker_calls[i]) =>
            /\ breaker_calls[i].invoked
            /\ breaker_calls[i].behaviour = "returns" =>
                   /\ breaker_calls[i].raised = "none"
                   /\ breaker_calls[i].after = CLOSED
            /\ Failing(breaker_calls[i]) =>
                   /\ breaker_calls[i].raised = breaker_calls[i].behaviour
                   /\ breaker_calls[i].after = OPEN

C28_Witness ==
    \E i, j \in DOMAIN breaker_calls :
        /\ OpenElapsed(breaker_calls[i])
        /\ Failing(breaker_calls[i])
        /\ breaker_calls[i].after = OPEN
        /\ OpenElapsed(breaker_calls[j])
        /\ breaker_calls[j].behaviour = "returns"
        /\ breaker_calls[j].after = CLOSED

\* The calls the breaker rejected, and those whose function raised an
\* exception the breaker does not expect
Rejected == {i \in BreakerCalls : ~breaker_calls[i].invoked}
Unexpected ==
    {i \in BreakerCalls :
        /\ breaker_calls[i].invoked
        /\ breaker_calls[i].behaviour # "returns"
        /\ ~Failing(breaker_calls[i])}
Succeeded ==
    {i \in BreakerCalls : breaker_calls[i].invoked /\ breaker_calls[i].behaviour = "returns"}
Failed == {i \in BreakerCalls : breaker_calls[i].invoked /\ Failing(breaker_calls[i])}

StoredUnexpired(c) ==
    /\ wrapper_key(c.func, c.theme) \in DOMAIN c.before._cache
    /\ ~is_expired(c.before._cache[wrapper_key(c.func, c.theme)], c.now)

\* C30: a call of a wrapped function whose key has a stored, unexpired result
\* does not run the function and returns the stored result, whatever the
\* stored value is.
C30_StoredResultIsReturned ==
    \A i \in DOMAIN idem_calls :
        StoredUnexpired(idem_calls[i]) =>
            /\ ~idem_calls[i].executed
            /\ idem_calls[i].value =
                   idem_calls[i].before._cache[wrapper_key(idem_calls[i].func,
                                                           idem_calls[i].theme)].result

\* The same for stored values that are truthy
TruthyStoredResultIsReturned ==
    \A i \in DOMAIN idem_calls :
        (/\ StoredUnexpired(idem_calls[i])
         /\ truthy(idem_calls[i].before._cache[wrapper_key(idem_calls[i].func,
                                                          idem_calls[i].theme)].result)) =>
            /\ ~idem_calls[i].executed
            /\ idem_calls[i].value =
                   idem_calls[i].before._cache[wrapper_key(idem_calls[i].func,
                                                           idem_calls[i].theme)].result

(***************************************************************************)
(* Concurrent callers of the idempotency manager                           *)
(***************************************************************************)
\* The runs of the wrapped function under a key
RunsOf(key) == {i \in DOMAIN idem_calls : idem_calls[i].key = key}

Returned(t) == threads[t].pc = "done"

\* C31: when several threads call the wrapped function with the same key
\* parameters, the function runs at most once per key and the callers that
\* have returned under one key all hold the same result.
C31_ConcurrentCallsRunOnce ==
    \A t, u \in DOMAIN threads :
        (/\ threads[t].op = "wrapped"
         /\ threads[u].op = "wrapped"
         /\ ThreadKey(t) = ThreadKey(u)) =>
            /\ Cardinality(RunsOf(ThreadKey(t))) <= 1
            /\ (Returned(t) /\ Returned(u)) => threads[t].value = threads[u].value

\* C39: once every store_result call has returned, the persisted file holds
\* every entry of the in-memory cache (no entry expires: the clock stands).
C39_DiskHoldsEveryEntry ==
    (/\ threads # <<>>
     /\ \A t \in DOMAIN threads : threads[t].op = "store_result" /\ Returned(t)) =>
        \A key \in DOMAIN manager._cache :
            /\ key \in DOMAIN disk
            /\ disk[key] = manager._cache[key]

(***************************************************************************)
(* The breaker in its trial state                                          *)
(***************************************************************************)
\* Every later call is rejected: the state is HALF_OPEN, the trials are used
\* up, and the recovery check of _call acts from OPEN only.
HalfOpenExhausted(self) ==
    /\ self._state = HALF_OPEN
    /\ self._half_open_attempts >= self.half_open_max_attempts

\* C33: after any trial made while HALF_OPEN has finished, by returning, by
\* the expected exception or by any other exception, the breaker has left
\* HALF_OPEN or still admits a later trial.
C33_TrialNeverExhaustsHalfOpen ==
    \A i \in DOMAIN breaker_calls :
        (/\ breaker_calls[i].op = "call"
         /\ breaker_calls[i].invoked
         /\ attempt_recovery(breaker_calls[i].before, breaker_calls[i].now)._state = HALF_OPEN) =>
            ~HalfOpenExhausted(_call(breaker_calls[i].before, breaker_calls[i].now,
                                     breaker_calls[i].behaviour).self)

\* A trial that returned or raised the expected exception leaves HALF_OPEN
TrialWithExpectedOutcomeLeavesHalfOpen ==
    \A i \in DOMAIN breaker_calls :
        (/\ breaker_calls[i].op = "call"
         /\ breaker_calls[i].invoked
         /\ attempt_recovery(breaker_calls[i].before, breaker_calls[i].now)._state = HALF_OPEN
         /\ \/ breaker_calls[i].behaviour = "returns"
            \/ isinstance(breaker_calls[i].behaviour,
                          breaker_calls[i].before.expected_exception)) =>
            breaker_calls[i].after # HALF_OPEN

(***************************************************************************)
(* What an approval of the audit rests on                                  *)
(***************************************************************************)
Approved(a) == ~a.outcome.raised /\ a.outcome.report.approved

\* Phase 2 was due and delivered no verdict: no screenshot, or the vision
\* call raised, timed out or answered with something that is not a verdict
Phase2FailedOpen(a) ==
    /\ _guardian.enable_vision_ai
    /\ a.shot = "error" \/ SemanticCheckFailed(a)

\* C34: when Phase 1 detected overflow and Phase 2 failed open instead of
\* delivering a verdict, the audit does not approve the artifact.
C34_OverflowNeedsRealPass ==
    \A i \in DOMAIN audits :
        (audits[i].dom = "overflow" /\ Phase2FailedOpen(audits[i])) =>
            ~Approved(audits[i])

\* A check of the audit ran to its end: the structural script gave its
\* verdict, or the vision model gave one
StructuralCheckCompleted(a) == a.dom # "error"
SemanticCheckCompleted(a) == VisionAsked(a) /\ ~SemanticCheckFailed(a)

\* C35: when the structural check cannot run (the browser fails to launch or
\* to load the page) the audit does not count that as no overflow and
\* approve: an approval rests on a check that completed.
C35_ApprovalNeedsCompletedCheck ==
    \A i \in DOMAIN audits :
        (~StructuralCheckCompleted(audits[i]) /\ ~SemanticCheckCompleted(audits[i])) =>
            ~Approved(audits[i])

\* The structural verdict stands when it was reached and Phase 2 is off
CompletedStructuralCheckDecides ==
    \A i \in DOMAIN audits :
        (StructuralCheckCompleted(audits[i]) /\ ~_guardian.enable_vision_ai) =>
            Approved(audits[i]) = (audits[i].dom = "clean")

(***************************************************************************)
(* The build always ends in a BuildResult                                  *)
(***************************************************************************)
\* C36: build_with_self_healing returns a BuildResult and lets no exception
\* out, whichever collaborator fails: the validator, the feature extraction
\* or the predictor before the loop, the renderer, the auditor, the healer,
\* the telemetry or the rename of the rejected page.
C36_BuildAlwaysReturnsResult ==
    /\ pc # "raised"
    /\ pc = "done" => result # NoneVal /\ result.status \in {SUCCESS, REJECTED, FAILED}

\* A failure inside the loop ends in a BuildResult
FailureInLoopReturnsFailed ==
    (pc \in {"done", "raised"} /\ LastOp \in {"render_raise", "audit_raise", "rename_raise"}) =>
        /\ pc = "done"
        /\ result.status = FAILED

(***************************************************************************)
(* What a remediation changes                                              *)
(***************************************************************************)
\* C37: a remediation changes one part of the build state: one that replaces
\* the content leaves the accumulated style overrides as they are, one that
\* overrides styles leaves the current content as it is, and none changes
\* the content document the caller passed in.
C37_RemediationChangesOnePart ==
    [][/\ (pc = "heal" /\ pc' = "loop") =>
             /\ content' = content
             /\ healing_result.content_modified =>
                    /\ current_style_overrides' = current_style_overrides
                    /\ current_content' = healing_result.modified_content
             /\ ~healing_result.content_modified =>
                    current_content' = current_content
       /\ (pc = "precog" /\ pc' = "loop") =>
             /\ content' = content
             /\ current_content' = current_content]_vars

\* Both kinds of remediation were applied in one build: the styles were
\* overridden, then the content was cut, and the caller's document differs
\* from the content the build now renders
C37_Witness ==
    /\ pc = "loop"
    /\ \E i, j \in DOMAIN applied :
          /\ i < j
          /\ ~applied[i].content_modified
          /\ applied[j].content_modified
    /\ current_content # content
    /\ current_style_overrides # EmptyDict

(***************************************************************************)
(* The cache of the LLM client                                             *)
(***************************************************************************)
\* The call repeats a request the backend answered, in a call that used the
\* cache, no longer ago than the ttl the answer was stored with
RepeatWithinTtl(c) ==
    /\ cache.enable_cache
    /\ c.use_cache
    /\ c.earlier # NoneVal
    /\ c.now - c.earlier.at <= c.earlier.ttl

\* The call is answered from the cache with the earlier response and sends
\* nothing to the backend
AnsweredFromCache(c) ==
    /\ c.from_cache
    /\ c.raised = "none"
    /\ c.value = c.earlier.value
    /\ c.requests = 0

\* use_cache=False: the response does not come from the cache and the request
\* goes to the backend
Bypasses(c) ==
    /\ ~c.from_cache
    /\ cache.max_retries >= 1 => c.requests >= 1

HeldByATier(c) == c.in_memory # NoneVal \/ c.in_files # NoneVal

C38_NoValueAfterItsTtl ==
    \A i \in DOMAIN llm_calls :
        (llm_calls[i].from_cache /\ llm_calls[i].earlier.ttl > 0) =>
            llm_calls[i].now - llm_calls[i].earlier.at <= llm_calls[i].earlier.ttl

\* A value served by a tier that holds it with the ttl it was stored with is
\* within that ttl
UnpromotedValueIsWithinItsTtl ==
    \A i \in DOMAIN llm_calls :
        (/\ llm_calls[i].from_cache
         /\ llm_calls[i].earlier.ttl > 0
         /\ \/ llm_calls[i].in_memory = NoneVal
            \/ llm_calls[i].in_memory.ttl = llm_calls[i].earlier.ttl) =>
            llm_calls[i].now - llm_calls[i].earlier.at <= llm_calls[i].earlier.ttl

(***************************************************************************)
(* The retry loop of the LLM clients                                       *)
(***************************************************************************)
\* C40: for any max_retries >= 0 a call of generate_content sends at most
\* max_retries requests to the backend and ends by returning a non-empty
\* text or by raising LLMClientError.
C40_CallEndsWithTextOrLLMClientError ==
    \A i \in DOMAIN llm_calls :
        /\ llm_calls[i].requests <= cache.max_retries
        /\ llm_calls[i].raised \in {"none", "LLMClientError"}
        /\ llm_calls[i].raised = "none" => truthy(llm_calls[i].value)

\* The loop itself is bounded, returns no empty text, and raises nothing but
\* LLMClientError once a request was sent
RetryLoopIsBounded ==
    \A i \in DOMAIN llm_calls :
        /\ llm_calls[i].requests <= cache.max_retries
        /\ llm_calls[i].raised = "none" => truthy(llm_calls[i].value)
        /\ llm_calls[i].raised \notin {"none", "LLMClientError"} =>
               /\ llm_calls[i].requests = 0
               /\ cache.class = "AsyncLLMClient"
               /\ cache.enable_cache /\ llm_calls[i].use_cache

====
